---- MODULE Spec2Model ----
(***************************************************************************)
(* q-status-cli: the collector loop (data/collector.rs), the two Data      *)
(* Sources' change detection (data/database.rs, data/claude_datasource.rs) *)
(* and the provider switch of the event loop (main.rs), as a state         *)
(* machine.                                                                *)
(*                                                                         *)
(* Collector tasks run on the tokio worker threads, the event loop on the  *)
(* main thread.  The only await of a collector that can suspend is         *)
(* ticker.tick(): every Data Source method is an async wrapper around      *)
(* synchronous code, so an aborted task stops at its next tick and not     *)
(* before.                                                                 *)
(***************************************************************************)
EXTENDS Integers, Sequences, FiniteSets, TLC

\* ------------------------------------------------------------------ bounds
\* External modifications of the polled store.
MaxData == 2
\* External modifications of each store while providers are switched.
MaxSwitchData == 1

\* Changes of the underlying data in the lockstep specification.
MaxSubstData == 3
\* Provider-switch requests ('p' key presses) handled by the event loop.
MaxSwitch == 1
\* Capacity of the event channel (bounded::<AppEvent>(100) in main.rs, scaled).
ChanCap == 1

\* Option::None of a version or a time stamp.
NoVersion == 0 - 1

DataSourceType == {"AmazonQ", "ClaudeCode"}

\* main.rs 222-225: the provider toggled to.
OtherSource(s) == IF s = "AmazonQ" THEN "ClaudeCode" ELSE "AmazonQ"

\* One collector per spawn: the initial one and one per switch.
TaskIds == 1 .. (MaxSwitch + 1)

\* The cells of AppState the collector writes.
CellNames ==
    {"all_conversations", "all_sessions", "directory_groups", "global_stats",
     "period_metrics", "last_refresh", "active_claude_session", "token_usage",
     "current_conversation", "cost_analysis", "burn_rate"}

\* A cell as AppState::new leaves it: written by no collector.
EmptyCell == [src |-> "none", ver |-> NoVersion]

VARIABLES
    store,               \* the underlying data of each source: version and mtime
    now,                 \* SystemTime::now(), counted in writes of the JSONL files
    task,                \* the collector tasks: life cycle, position, Data Source instance
    cell,                \* AppState's metric cells: which source and version each holds
    is_connected,        \* AppState.is_connected
    active_data_source,  \* AppState's active-data-source label
    collector_handle,    \* run_event_loop's collector_handle (0: None)
    chan,                \* DatabaseUpdate events waiting in the event channel
    mainpc,              \* position of run_event_loop
    new_source,          \* run_event_loop's new_source while a switch is handled
    newds,               \* the Data Source under construction by the factory
    switches,            \* switch requests handled so far
    sub,                 \* two Data Sources driven in lockstep (substitutability)
    lk,                  \* lock-level view of one refresh against the render loop
    calc                 \* a pure computation under study: its inputs and its result

vars ==
    <<store, now, task, cell, is_connected, active_data_source, collector_handle,
      chan, mainpc, new_source, newds, switches, sub, lk, calc>>

\* --------------------------------------------------------- Data Sources

\* QDatabase::new: no version seen yet.
QDatabaseNew ==
    [last_data_version |-> NoVersion, last_check |-> NoVersion,
     needs_refresh |-> FALSE, sessions |-> NoVersion, loaded |-> NoVersion]

\* ClaudeCodeDataSource::new before its initial refresh_cache.
ClaudeNewEmpty ==
    [last_data_version |-> NoVersion, last_check |-> NoVersion,
     needs_refresh |-> TRUE, sessions |-> NoVersion, loaded |-> NoVersion]

\* refresh_cache, second half: install what load_jsonl_files returned and
\* stamp last_check with the time of the stamp, not of the read.
RefreshCacheRecord(ds, time) ==
    [ds EXCEPT !.sessions = ds.loaded, !.loaded = NoVersion,
               !.needs_refresh = FALSE, !.last_check = time]

\* QDatabase::has_changed: PRAGMA data_version against the last one seen; the
\* version read is recorded whatever the answer.
QHasChanged(ds, st, ok) ==
    IF ~ok
    THEN [res |-> "err", ds |-> ds]
    ELSE [res |-> IF ds.last_data_version = NoVersion
                      \/ st.ver # ds.last_data_version
                  THEN "true" ELSE "false",
          ds |-> [ds EXCEPT !.last_data_version = st.ver]]

\* ClaudeCodeDataSource::has_changed: some JSONL file modified after last_check.
ClaudeHasChanged(ds, st, ok) ==
    IF ~ok
    THEN [res |-> "err", ds |-> ds]
    ELSE IF st.ver > 0 /\ ds.last_check # NoVersion /\ st.mtime > ds.last_check
         THEN [res |-> "true", ds |-> [ds EXCEPT !.needs_refresh = TRUE]]
         ELSE [res |-> "false", ds |-> ds]

\* DataSource::has_changed, dispatched on the concrete type.
HasChanged(kind, ds, st, ok) ==
    IF kind = "AmazonQ" THEN QHasChanged(ds, st, ok)
    ELSE ClaudeHasChanged(ds, st, ok)

\* Whether a getter of this instance goes to the underlying store: QDatabase
\* always queries, ClaudeCodeDataSource only to refresh its cache.
NeedsStore(kind, ds) == kind = "AmazonQ" \/ ds.needs_refresh

\* The version a getter serves: the database as it is, or the cached sessions.
Served(kind, ds, st) == IF kind = "AmazonQ" THEN st.ver ELSE ds.sessions

\* ------------------------------------------------------------ collector

NoTick == [check |-> "none", refresh |-> "none", events |-> 0]

UnbornTask ==
    [st |-> "unborn", kind |-> "AmazonQ", pc |-> "tick", aborted |-> FALSE,
     ds |-> QDatabaseNew, conv |-> NoVersion, tick |-> NoTick]

\* spawn_collector_with_datasource: a task about to await its first tick.
SpawnedTask(kind, ds) ==
    [st |-> "live", kind |-> kind, pc |-> "tick", aborted |-> FALSE,
     ds |-> ds, conv |-> NoVersion, tick |-> NoTick]

\* The getters of collect_data that publish a cell, and the cell of each.
FetchPcs == {"c73", "c77", "c81", "c85", "c89"}

FetchCell(pc) ==
    CASE pc = "c73" -> "all_conversations"
      [] pc = "c77" -> "all_sessions"
      [] pc = "c81" -> "directory_groups"
      [] pc = "c85" -> "global_stats"
      [] pc = "c89" -> "period_metrics"

\* Statement order of collect_data.
NextPc(pc) ==
    CASE pc = "c70" -> "c73"
      [] pc = "c73" -> "c77"
      [] pc = "c77" -> "c81"
      [] pc = "c81" -> "c85"
      [] pc = "c85" -> "c89"
      [] pc = "c89" -> "c94"
      [] pc = "c94" -> "c108"
      [] pc = "c108" -> "c110"

\* Every statement that calls a getter which may refresh the Claude cache.
GetterPcs == FetchPcs \cup {"c108"}

\* collect_data returns Err: run logs it and awaits the next tick.
CollectErr(t) ==
    [task EXCEPT ![t].pc = "tick", ![t].tick.refresh = "err",
                 ![t].ds.loaded = NoVersion]

\* A cell replaced by collector t with data of version v of its source.
Written(t, v) == [src |-> task[t].kind, ver |-> v]

\* A task aborted through its JoinHandle is dropped at its next await, the tick.
Cancelled(t) ==
    /\ task[t].st = "live" /\ task[t].pc = "tick" /\ task[t].aborted
    /\ task' = [task EXCEPT ![t] = [UnbornTask EXCEPT !.st = "dead"]]
    /\ UNCHANGED <<store, now, cell, is_connected, active_data_source,
                   collector_handle, chan, mainpc, new_source, newds, switches, sub, lk, calc>>

\* run whose tick collects whatever has_changed answered.
PollAlwaysCollects(t) ==
    /\ task[t].st = "live" /\ task[t].pc = "tick" /\ ~task[t].aborted
    /\ \E ok \in BOOLEAN :
       LET r == HasChanged(task[t].kind, task[t].ds, store[task[t].kind], ok)
       IN /\ task' = [task EXCEPT
                 ![t].ds = r.ds,
                 ![t].pc = IF r.res = "err" THEN "tick" ELSE "c70",
                 ![t].tick = [check |-> r.res,
                              refresh |-> IF r.res = "err" THEN "none" ELSE "run",
                              events |-> 0]]
          /\ is_connected' = IF r.res = "err" THEN FALSE ELSE is_connected
    /\ UNCHANGED <<store, now, cell, active_data_source, collector_handle, chan,
                   mainpc, new_source, newds, switches, sub, lk, calc>>

\* run, lines 48-64: the tick fires and has_changed is matched.
Poll(t) ==
    /\ task[t].st = "live" /\ task[t].pc = "tick" /\ ~task[t].aborted
    /\ \E ok \in BOOLEAN :
       LET r == HasChanged(task[t].kind, task[t].ds, store[task[t].kind], ok)
       IN /\ task' = [task EXCEPT
                 ![t].ds = r.ds,
                 ![t].pc = IF r.res = "true" THEN "c70" ELSE "tick",
                 ![t].tick = [check |-> r.res,
                              refresh |-> IF r.res = "true" THEN "run" ELSE "none",
                              events |-> 0]]
          /\ is_connected' = IF r.res = "err" THEN FALSE ELSE is_connected
    /\ UNCHANGED <<store, now, cell, active_data_source, collector_handle, chan,
                   mainpc, new_source, newds, switches, sub, lk, calc>>

\* collect_data, line 70.
MarkConnected(t) ==
    /\ task[t].st = "live" /\ task[t].pc = "c70"
    /\ is_connected' = TRUE
    /\ task' = [task EXCEPT ![t].pc = NextPc("c70")]
    /\ UNCHANGED <<store, now, cell, active_data_source, collector_handle, chan,
                   mainpc, new_source, newds, switches, sub, lk, calc>>

\* A Claude getter finding needs_refresh: refresh_cache reads the JSONL files.
\* A failed read fails the getter; only get_period_metrics' failure is ignored.
RefreshLoad(t) ==
    /\ task[t].st = "live" /\ task[t].pc \in GetterPcs
    /\ task[t].kind = "ClaudeCode"
    /\ task[t].ds.needs_refresh /\ task[t].ds.loaded = NoVersion
    /\ \E ok \in BOOLEAN :
         task' = IF ok
                 THEN [task EXCEPT ![t].ds.loaded = store["ClaudeCode"].ver]
                 ELSE IF task[t].pc = "c89"
                      THEN [task EXCEPT ![t].pc = NextPc("c89")]
                      ELSE CollectErr(t)
    /\ UNCHANGED <<store, now, cell, is_connected, active_data_source,
                   collector_handle, chan, mainpc, new_source, newds, switches, sub, lk, calc>>

\* refresh_cache, lines 425-427, after the files were read.
RefreshRecord(t) ==
    /\ task[t].st = "live" /\ task[t].pc \in GetterPcs
    /\ task[t].kind = "ClaudeCode"
    /\ task[t].ds.needs_refresh /\ task[t].ds.loaded # NoVersion
    /\ task' = [task EXCEPT ![t].ds = RefreshCacheRecord(task[t].ds, now)]
    /\ UNCHANGED <<store, now, cell, is_connected, active_data_source,
                   collector_handle, chan, mainpc, new_source, newds, switches, sub, lk, calc>>

\* collect_data, lines 73-91: one getter and the replacement of its cell.
Fetch(t) ==
    /\ task[t].st = "live" /\ task[t].pc \in FetchPcs
    /\ ~(task[t].kind = "ClaudeCode" /\ task[t].ds.needs_refresh)
    /\ \E ok \in IF NeedsStore(task[t].kind, task[t].ds) THEN BOOLEAN ELSE {TRUE} :
       LET k == task[t].kind
           p == task[t].pc
       IN IF ~ok
          THEN /\ task' = IF p = "c89"
                          THEN [task EXCEPT ![t].pc = NextPc(p)]
                          ELSE CollectErr(t)
               /\ cell' = cell
          ELSE /\ cell' = [cell EXCEPT
                     ![FetchCell(p)] = Written(t, Served(k, task[t].ds, store[k]))]
               /\ task' = [task EXCEPT ![t].pc = NextPc(p)]
    /\ UNCHANGED <<store, now, is_connected, active_data_source,
                   collector_handle, chan, mainpc, new_source, newds, switches, sub, lk, calc>>

\* collect_data, lines 94-105: last_refresh, and the active Claude session when
\* the label says ClaudeCode and the source downcasts to ClaudeCodeDataSource.
StampRefresh(t) ==
    /\ task[t].st = "live" /\ task[t].pc = "c94"
    /\ cell' = [cell EXCEPT
           !["last_refresh"] = Written(t, NoVersion),
           !["active_claude_session"] =
               IF active_data_source = "ClaudeCode" /\ task[t].kind = "ClaudeCode"
               THEN Written(t, task[t].ds.sessions)
               ELSE @]
    /\ task' = [task EXCEPT ![t].pc = NextPc("c94")]
    /\ UNCHANGED <<store, now, is_connected, active_data_source,
                   collector_handle, chan, mainpc, new_source, newds, switches, sub, lk, calc>>

\* collect_data, line 108: get_current_conversation(None)?
FetchConversation(t) ==
    /\ task[t].st = "live" /\ task[t].pc = "c108"
    /\ ~(task[t].kind = "ClaudeCode" /\ task[t].ds.needs_refresh)
    /\ \E ok \in IF NeedsStore(task[t].kind, task[t].ds) THEN BOOLEAN ELSE {TRUE} :
       LET k == task[t].kind
       IN task' = IF ~ok
                  THEN CollectErr(t)
                  ELSE [task EXCEPT ![t].pc = NextPc("c108"),
                                    ![t].conv = Served(k, task[t].ds, store[k])]
    /\ UNCHANGED <<store, now, cell, is_connected, active_data_source,
                   collector_handle, chan, mainpc, new_source, newds, switches, sub, lk, calc>>

\* collect_data, lines 110-162 up to the send: a store without records has no
\* conversation.  With one, usage, conversation id and cost are replaced; with
\* none, usage is cleared and the conversation id reset.
UpdateUsage(t) ==
    /\ task[t].st = "live" /\ task[t].pc = "c110"
    /\ LET c == task[t].conv
       IN IF c > 0
          THEN /\ cell' = [cell EXCEPT !["token_usage"] = Written(t, c),
                                       !["current_conversation"] = Written(t, c),
                                       !["cost_analysis"] = Written(t, c)]
               /\ task' = [task EXCEPT ![t].pc = "c146", ![t].conv = NoVersion]
          ELSE /\ cell' = [cell EXCEPT !["token_usage"] = Written(t, c),
                                       !["current_conversation"] = Written(t, c)]
               /\ task' = [task EXCEPT ![t].pc = "c165", ![t].conv = NoVersion]
    /\ UNCHANGED <<store, now, is_connected, active_data_source,
                   collector_handle, chan, mainpc, new_source, newds, switches, sub, lk, calc>>

\* collect_data, line 146: event_tx.send blocks while the channel is full.
SendUpdate(t) ==
    /\ task[t].st = "live" /\ task[t].pc = "c146"
    /\ chan < ChanCap
    /\ chan' = chan + 1
    /\ task' = [task EXCEPT ![t].pc = "c165",
                            ![t].tick.events = task[t].tick.events + 1]
    /\ UNCHANGED <<store, now, cell, is_connected, active_data_source,
                   collector_handle, mainpc, new_source, newds, switches, sub, lk, calc>>

\* calculate_burn_rate, then Ok(()): the rate is computed from the all_sessions
\* cell as it is now, whoever wrote it.
CalculateBurnRate(t) ==
    /\ task[t].st = "live" /\ task[t].pc = "c165"
    /\ cell' = [cell EXCEPT !["burn_rate"] =
                   [src |-> cell["all_sessions"].src,
                    ver |-> cell["all_sessions"].ver]]
    /\ task' = [task EXCEPT ![t].pc = "tick", ![t].tick.refresh = "ok"]
    /\ UNCHANGED <<store, now, is_connected, active_data_source,
                   collector_handle, chan, mainpc, new_source, newds, switches, sub, lk, calc>>

CollectorStep(t) ==
    \/ Poll(t)
    \/ MarkConnected(t)
    \/ RefreshLoad(t)
    \/ RefreshRecord(t)
    \/ Fetch(t)
    \/ StampRefresh(t)
    \/ FetchConversation(t)
    \/ UpdateUsage(t)
    \/ SendUpdate(t)
    \/ CalculateBurnRate(t)

\* ---------------------------------------------------------- environment

\* The monitored tool commits to its database or appends to a JSONL file
\* (at most max times).
Modify(s, max) ==
    /\ store[s].ver < max
    /\ IF s = "ClaudeCode"
       THEN /\ now' = now + 1
            /\ store' = [store EXCEPT ![s].ver = @ + 1, ![s].mtime = now + 1]
       ELSE /\ now' = now
            /\ store' = [store EXCEPT ![s].ver = @ + 1]
    /\ UNCHANGED <<task, cell, is_connected, active_data_source,
                   collector_handle, chan, mainpc, new_source, newds, switches, sub, lk, calc>>

\* ----------------------------------------------------------- event loop

\* run_event_loop, lines 211 and 262: a DatabaseUpdate is received and dropped.
Drain ==
    /\ mainpc = "loop" /\ chan > 0
    /\ chan' = chan - 1
    /\ UNCHANGED <<store, now, task, cell, is_connected, active_data_source,
                   collector_handle, mainpc, new_source, newds, switches, sub, lk, calc>>

\* Lines 213-230: 'p' is handled, the other provider chosen and the running
\* collector aborted through its handle; abort() does not wait for the task.
SwitchAbort ==
    /\ mainpc = "loop" /\ switches < MaxSwitch
    /\ switches' = switches + 1
    /\ new_source' = OtherSource(active_data_source)
    /\ task' = IF collector_handle # 0
               THEN [task EXCEPT ![collector_handle].aborted = TRUE]
               ELSE task
    /\ collector_handle' = 0
    /\ mainpc' = "sw_create"
    /\ UNCHANGED <<store, now, cell, is_connected, active_data_source, chan,
                   newds, sub, lk, calc>>

\* Line 233, DataSourceFactory::create: QDatabase::new opens the database;
\* ClaudeCodeDataSource::new reads the JSONL files.  A failure is logged and
\* the switching flag reset (lines 253-259).
SwitchCreate ==
    /\ mainpc = "sw_create"
    /\ \E ok \in BOOLEAN :
         IF ~ok
         THEN /\ mainpc' = "loop"
              /\ newds' = newds
         ELSE IF new_source = "AmazonQ"
              THEN /\ newds' = QDatabaseNew
                   /\ mainpc' = "sw_spawn"
              ELSE /\ newds' = [ClaudeNewEmpty EXCEPT
                                    !.loaded = store["ClaudeCode"].ver]
                   /\ mainpc' = "sw_record"
    /\ UNCHANGED <<store, now, task, cell, is_connected, active_data_source,
                   collector_handle, chan, new_source, switches, sub, lk, calc>>

\* ClaudeCodeDataSource::new, the rest of its initial refresh_cache.
SwitchRecord ==
    /\ mainpc = "sw_record"
    /\ newds' = RefreshCacheRecord(newds, now)
    /\ mainpc' = "sw_spawn"
    /\ UNCHANGED <<store, now, task, cell, is_connected, active_data_source,
                   collector_handle, chan, new_source, switches, sub, lk, calc>>

\* Line 236: the new collector is spawned and may run at once.
SwitchSpawn ==
    /\ mainpc = "sw_spawn"
    /\ task' = [task EXCEPT ![switches + 1] = SpawnedTask(new_source, newds)]
    /\ newds' = QDatabaseNew
    /\ mainpc' = "sw_commit"
    /\ UNCHANGED <<store, now, cell, is_connected, active_data_source,
                   collector_handle, chan, new_source, switches, sub, lk, calc>>

\* Lines 243-259: the label, the handle and the switching flag.
SwitchCommit ==
    /\ mainpc = "sw_commit"
    /\ active_data_source' = new_source
    /\ collector_handle' = switches + 1
    /\ mainpc' = "loop"
    /\ UNCHANGED <<store, now, task, cell, is_connected, chan, new_source,
                   newds, switches, sub, lk, calc>>

\* ------------------------------------------------------------ the system

NoSub == [phase |-> "off"]
NoLk == [phase |-> "off"]
NoCalc == [phase |-> "off"]

\* main: the Data Source of the chosen provider is built and the first
\* collector spawned; nothing has been published yet.
Init ==
    /\ calc = NoCalc
    /\ now = 0
    /\ store = [s \in DataSourceType |-> [ver |-> 0, mtime |-> 0]]
    /\ \E s0 \in DataSourceType :
         /\ active_data_source = s0
         /\ task = [t \in TaskIds |->
                       IF t = 1
                       THEN SpawnedTask(s0,
                              IF s0 = "AmazonQ" THEN QDatabaseNew
                              ELSE RefreshCacheRecord(
                                     [ClaudeNewEmpty EXCEPT !.loaded = 0], 0))
                       ELSE UnbornTask]
         /\ new_source = s0
    /\ cell = [c \in CellNames |-> EmptyCell]
    /\ is_connected = FALSE
    /\ collector_handle = 1
    /\ chan = 0
    /\ mainpc = "loop"
    /\ newds = QDatabaseNew
    /\ switches = 0
    /\ sub = NoSub
    /\ lk = NoLk

\* The collector of the provider chosen at start, polling; no switch is asked.
Next ==
    \/ \E t \in TaskIds : CollectorStep(t)
    \/ Modify(active_data_source, MaxData)
    \/ Drain

Spec == Init /\ [][Next]_vars

\* Some call of the collector has failed: has_changed, or a getter of
\* collect_data.
Errored ==
    \E t \in TaskIds : task[t].tick.check = "err" \/ task[t].tick.refresh = "err"

\* A step of a collector in which no call fails.
FaultlessStep == (\E t \in TaskIds : CollectorStep(t)) /\ ~Errored'

\* The same under the scheduling of the program: the interval of run keeps
\* ticking and the runtime keeps running the collector task, and the event
\* loop keeps receiving.  Nothing obliges a call to fail, nor the monitored
\* tool to write.
LiveSpec ==
    /\ Spec
    /\ WF_vars(FaultlessStep)
    /\ WF_vars(Drain)

\* The same with provider switches.
SwitchNext ==
    \/ \E t \in TaskIds : CollectorStep(t)
    \/ \E t \in TaskIds : Cancelled(t)
    \/ \E s \in DataSourceType : Modify(s, MaxSwitchData)
    \/ Drain
    \/ SwitchAbort
    \/ SwitchCreate
    \/ SwitchRecord
    \/ SwitchSpawn
    \/ SwitchCommit

SwitchSpec == Init /\ [][SwitchNext]_vars

\* ------------------------------------------------ locks of one refresh

\* A lock program is a sequence of steps over the Mutex cells of AppState:
\*   tmp   lock().unwrap() as a temporary: taken and dropped in one statement
\*   acq   a guard bound with let: held until its scope ends
\*   acqs  the same, under `if let Some(stats) = *global_stats`
\*   put   *global_stats = Some(..), as tmp
\*   rel   the end of a scope: its guards are dropped
\*   send  event_tx.send on the bounded channel
Tmp(c) == [op |-> "tmp", cs |-> {c}]
Acq(c) == [op |-> "acq", cs |-> {c}]
AcqIfStats(c) == [op |-> "acqs", cs |-> {c}]
PutStats == [op |-> "put", cs |-> {"global_stats"}]
Rel(S) == [op |-> "rel", cs |-> S]
SendOp == [op |-> "send", cs |-> {}]

\* AppState::update_token_usage_details: token_usage is held throughout,
\* usage_history from the history update on.
UpdateTokenUsageDetailsLocks ==
    <<Acq("token_usage"), Tmp("last_update"), Acq("usage_history"),
      Tmp("last_update"), Rel({"token_usage", "usage_history"})>>

\* DataCollector::calculate_burn_rate: all_sessions, then burn_rate, both to
\* the end of the function.
BurnRateLocks ==
    <<Acq("all_sessions"), Acq("burn_rate"), Rel({"all_sessions", "burn_rate"})>>

\* DataCollector::collect_data, with or without a current conversation: with
\* one, the cost_analysis guard lives to the end of the branch, over the send.
CollectLocks(conv) ==
    <<Tmp("is_connected"), Tmp("all_conversations"), Tmp("all_sessions"),
      Tmp("directory_groups"), PutStats, Tmp("period_metrics"),
      Tmp("last_refresh")>>
    \o UpdateTokenUsageDetailsLocks
    \o <<Tmp("current_conversation")>>
    \o (IF conv
        THEN <<Acq("cost_analysis"), Tmp("global_stats"), Tmp("token_usage"),
               SendOp, Rel({"cost_analysis"})>>
        ELSE <<>>)
    \o BurnRateLocks

\* Dashboard::render_metrics_widget: three guards, and all_sessions on top of
\* them when there are global stats.
MetricsWidgetLocks ==
    <<Acq("global_stats"), Acq("burn_rate"), Acq("period_metrics"),
      AcqIfStats("all_sessions"),
      Rel({"global_stats", "burn_rate", "period_metrics", "all_sessions"})>>

\* Dashboard::render_session_list: directory_groups is held over the metrics
\* widget.
SessionListLocks ==
    <<Acq("directory_groups"), Tmp("show_active_only"),
      Tmp("selected_conversation_index"), Tmp("last_refresh")>>
    \o MetricsWidgetLocks
    \o <<Rel({"directory_groups"})>>

\* render_token_gauge, render_cost_panel, render_usage_info.
CurrentDirectoryLocks ==
    <<Acq("token_usage"), Rel({"token_usage"}),
      Acq("cost_analysis"), Rel({"cost_analysis"}),
      Acq("token_usage"), Acq("current_conversation"),
      Rel({"token_usage", "current_conversation"})>>

\* render_global_stats, render_top_conversations.
GlobalOverviewLocks ==
    <<Acq("global_stats"), Rel({"global_stats"}),
      Acq("all_conversations"), Rel({"all_conversations"})>>

\* render_conversation_list.
ConversationListLocks ==
    <<Acq("all_conversations"), Tmp("selected_conversation_index"),
      Rel({"all_conversations"})>>

\* Dashboard::render_body: the view is read once, then drawn.
BodyLocks(view) ==
    <<Tmp("view_mode")>> \o
    (CASE view = "SessionList" -> SessionListLocks
       [] view = "CurrentDirectory" -> CurrentDirectoryLocks
       [] view = "GlobalOverview" -> GlobalOverviewLocks
       [] view = "ConversationList" -> ConversationListLocks)

\* Dashboard::render: header, body, footer (stats line, then the key hints).
RenderLocks(view) ==
    <<Tmp("is_connected")>>
    \o BodyLocks(view)
    \o <<Acq("global_stats"), Rel({"global_stats"}), Tmp("view_mode")>>

\* Dashboard::handle_key, the keys that choose a view.
ViewOfKey(k) ==
    CASE k = "g" -> "GlobalOverview"
      [] k = "l" -> "ConversationList"
      [] k = "c" -> "CurrentDirectory"
      [] k = "s" -> "SessionList"

ViewKeys == {"g", "l", "c", "s"}

LockCells ==
    {"is_connected", "all_conversations", "all_sessions", "directory_groups",
     "global_stats", "period_metrics", "last_refresh", "token_usage",
     "last_update", "usage_history", "current_conversation", "cost_analysis",
     "burn_rate", "view_mode", "show_active_only", "selected_conversation_index"}

\* Whether thread `me` can take its step o now: a lock step waits for every
\* Mutex it names, a send for room in the channel.
CanStep(me, o) ==
    CASE o.op \in {"tmp", "acq", "put"} -> \A c \in o.cs : lk.holder[c] = "free"
      [] o.op = "acqs" -> ~lk.stats \/ \A c \in o.cs : lk.holder[c] = "free"
      [] o.op = "send" -> Len(lk.q) < ChanCap
      [] o.op = "rel" -> TRUE

\* The Mutex owners after thread `me` took step o.
HolderAfter(me, o) ==
    CASE o.op = "acq" -> [c \in LockCells |-> IF c \in o.cs THEN me ELSE lk.holder[c]]
      [] o.op = "acqs" ->
            [c \in LockCells |-> IF c \in o.cs /\ lk.stats THEN me ELSE lk.holder[c]]
      [] o.op = "rel" ->
            [c \in LockCells |->
                IF c \in o.cs /\ lk.holder[c] = me THEN "free" ELSE lk.holder[c]]
      [] o.op \in {"tmp", "put", "send"} -> lk.holder

MainUnchanged ==
    UNCHANGED <<store, now, task, cell, is_connected, active_data_source,
                collector_handle, chan, mainpc, new_source, newds, switches, sub, calc>>

\* run: has_changed answered changed and collect_data begins.
LkTick ==
    /\ lk.phase = "on" /\ lk.cpc = 0
    /\ \E conv \in BOOLEAN : lk' = [lk EXCEPT !.cpc = 1, !.conv = conv]
    /\ MainUnchanged

\* The collector takes the next step of collect_data.
LkCollect ==
    /\ lk.phase = "on" /\ lk.cpc > 0
    /\ LET prog == CollectLocks(lk.conv)
           o == prog[lk.cpc]
       IN /\ CanStep("collector", o)
          /\ lk' = [lk EXCEPT
                 !.holder = HolderAfter("collector", o),
                 !.stats = IF o.op = "put" THEN TRUE ELSE @,
                 !.q = IF o.op = "send" THEN Append(@, "DatabaseUpdate") ELSE @,
                 !.cpc = IF lk.cpc = Len(prog) THEN 0 ELSE lk.cpc + 1]
    /\ MainUnchanged

\* The event loop takes the next step of terminal.draw(|f| dashboard.render(f)).
LkRender ==
    /\ lk.phase = "on" /\ lk.rpc <= Len(RenderLocks(lk.view))
    /\ LET o == RenderLocks(lk.view)[lk.rpc]
       IN /\ CanStep("consumer", o)
          /\ lk' = [lk EXCEPT !.holder = HolderAfter("consumer", o),
                              !.rpc = lk.rpc + 1]
    /\ MainUnchanged

\* run_event_loop, recv_timeout(50ms): one event is taken if there is one, a
\* view key changes the view (handle_key holds view_mode alone), and the loop
\* renders again.
LkRecv ==
    /\ lk.phase = "on" /\ lk.rpc > Len(RenderLocks(lk.view))
    /\ IF lk.q = <<>>
       THEN lk' = [lk EXCEPT !.rpc = 1]
       ELSE /\ Head(lk.q) \in ViewKeys => lk.holder["view_mode"] = "free"
            /\ lk' = [lk EXCEPT
                   !.rpc = 1,
                   !.q = Tail(@),
                   !.view = IF Head(lk.q) \in ViewKeys
                            THEN ViewOfKey(Head(lk.q)) ELSE @]
    /\ MainUnchanged

\* spawn_input_handler: a key press is sent on the same bounded channel.
LkInput ==
    /\ lk.phase = "on" /\ Len(lk.q) < ChanCap
    /\ \E k \in ViewKeys : lk' = [lk EXCEPT !.q = Append(@, k)]
    /\ MainUnchanged

\* No collector of the polling model runs in the lock-level and lockstep views.
MainOff ==
    /\ now = 0
    /\ store = [s \in DataSourceType |-> [ver |-> 0, mtime |-> 0]]
    /\ task = [t \in TaskIds |-> UnbornTask]
    /\ cell = [c \in CellNames |-> EmptyCell]
    /\ is_connected = FALSE
    /\ active_data_source = "AmazonQ"
    /\ collector_handle = 0
    /\ chan = 0
    /\ mainpc = "loop"
    /\ new_source = "AmazonQ"
    /\ newds = QDatabaseNew
    /\ switches = 0

\* AppState::new and Dashboard::new: every Mutex free, no global stats yet,
\* the session list shown, the collector before its first tick.
LockInit ==
    /\ MainOff
    /\ calc = NoCalc
    /\ sub = NoSub
    /\ lk = [phase |-> "on",
             holder |-> [c \in LockCells |-> "free"],
             cpc |-> 0, conv |-> FALSE, rpc |-> 1,
             view |-> "SessionList", q |-> <<>>, stats |-> FALSE]

LockNext == LkTick \/ LkCollect \/ LkRender \/ LkRecv \/ LkInput

LockSpec == LockInit /\ [][LockNext]_vars

\* ------------------------------------------- two Data Sources in lockstep

\* A QDatabase and a ClaudeCodeDataSource over stores that change together,
\* built, polled and refreshed at the same moments with the same I/O luck.
\* ansQ and ansC are what has_changed answered at the last tick.
SubstBuilt(ver, time) ==
    [phase |-> "tick",
     q |-> QDatabaseNew,
     c |-> RefreshCacheRecord([ClaudeNewEmpty EXCEPT !.loaded = ver], time),
     ansQ |-> "none", ansC |-> "none"]

SubstUnchanged ==
    UNCHANGED <<task, cell, is_connected, active_data_source, collector_handle,
                chan, mainpc, new_source, newds, switches, lk, calc>>

\* DataSourceFactory::create for both types, on the stores as they are.
SubstConstruct ==
    /\ sub.phase = "tick"
    /\ sub.ansQ # "none"
    /\ sub' = SubstBuilt(store["ClaudeCode"].ver, now)
    /\ UNCHANGED <<store, now>>
    /\ SubstUnchanged

\* The same change reaches the database and the JSONL files.
SubstModify ==
    /\ sub.phase # "off"
    /\ store["AmazonQ"].ver < MaxSubstData
    /\ now' = now + 1
    /\ store' = [s \in DataSourceType |->
                    [ver |-> store[s].ver + 1,
                     mtime |-> IF s = "ClaudeCode" THEN now + 1 ELSE store[s].mtime]]
    /\ UNCHANGED sub
    /\ SubstUnchanged

\* run, one tick: has_changed is asked of both.
SubstTick ==
    /\ sub.phase = "tick"
    /\ \E ok \in BOOLEAN :
         LET rq == QHasChanged(sub.q, store["AmazonQ"], ok)
             rc == ClaudeHasChanged(sub.c, store["ClaudeCode"], ok)
         IN sub' = [sub EXCEPT !.q = rq.ds, !.c = rc.ds,
                               !.ansQ = rq.res, !.ansC = rc.res,
                               !.phase = "refresh"]
    /\ UNCHANGED <<store, now>>
    /\ SubstUnchanged

\* run, after the answers: collect_data for whichever answered changed, whose
\* first getter refreshes the cache of a ClaudeCodeDataSource unless the read
\* fails; nothing of a QDatabase changes.
SubstRefresh ==
    /\ sub.phase = "refresh"
    /\ \E ok \in BOOLEAN :
         sub' = [sub EXCEPT
                   !.phase = "tick",
                   !.c = IF sub.ansC = "true" /\ ok
                         THEN RefreshCacheRecord(
                                [sub.c EXCEPT !.loaded = store["ClaudeCode"].ver], now)
                         ELSE sub.c]
    /\ UNCHANGED <<store, now>>
    /\ SubstUnchanged

SubstInit ==
    /\ MainOff
    /\ calc = NoCalc
    /\ lk = NoLk
    /\ sub = SubstBuilt(0, 0)

SubstNext == SubstConstruct \/ SubstModify \/ SubstTick \/ SubstRefresh

SubstSpec == SubstInit /\ [][SubstNext]_vars

\* ------------------------------------------------------- token usage

\* Every other part of the model is at rest while a pure computation is
\* studied.
AllOff == MainOff /\ sub = NoSub /\ lk = NoLk

CalcUnchanged ==
    UNCHANGED <<store, now, task, cell, is_connected, active_data_source,
                collector_handle, chan, mainpc, new_source, newds, switches,
                sub, lk>>

\* let context_window = 175_000u64 in QDatabase::get_token_usage.
QContextWindow == 175000
\* let context_window = 200_000u64 in calculate_token_usage.
ClaudeContextWindow == 200000
\* context_window: 175_000 in AppState::update_token_usage.
LegacyContextWindow == 175000
\* raw_context_tokens > 100_000 is taken for a cumulative count ...
CumulativeContextTokens == 100000
\* ... and replaced by 20_000.
TypicalContextTokens == 20000
\* Q's character-to-token ratio.
CharsPerToken == 4

\* Token counts at most this far from a threshold are tried.
MaxDelta == 1

\* An f64 percentage, kept exact as the fraction n / d.
Percent(n, d) == [n |-> n, d |-> d]
PctLt(p, q) == p.n * q.d < q.n * p.d
PctLe(p, q) == p.n * q.d <= q.n * p.d
PctEq(p, q) == p.n * q.d = q.n * p.d

\* (total_tokens as f64 / context_window as f64) * 100.0
RawPercentage(total, window) == Percent(total * 100, window)

\* match percentage { p if p < 70.0 => Safe, p if p < 90.0 => Warning,
\*                    p if p < 95.0 => Critical, _ => Imminent }
CompactionStatusOf(p) ==
    IF PctLt(p, Percent(70, 1)) THEN "Safe"
    ELSE IF PctLt(p, Percent(90, 1)) THEN "Warning"
    ELSE IF PctLt(p, Percent(95, 1)) THEN "Critical"
    ELSE "Imminent"

Min(a, b) == IF a < b THEN a ELSE b

\* conversation.context_message_length.unwrap_or(0); None is the empty
\* sequence.
RawContextTokens(context_message_length) ==
    IF context_message_length = <<>> THEN 0 ELSE context_message_length[1]

\* The estimate that also replaces a raw count of exactly 100_000.
ContextTokensFromThreshold(raw_context_tokens) ==
    IF raw_context_tokens >= CumulativeContextTokens
    THEN TypicalContextTokens ELSE raw_context_tokens

\* get_token_usage, lines 256-263: a raw count above 100_000 is taken for a
\* cumulative one and replaced by the typical context size.
ContextTokens(raw_context_tokens) ==
    IF raw_context_tokens > CumulativeContextTokens
    THEN TypicalContextTokens ELSE raw_context_tokens

\* get_token_usage without the 99.9 step: the raw percentage is reported as
\* computed.
QGetTokenUsageRaw(history_chars, raw_context_tokens) ==
    LET history_tokens == history_chars \div CharsPerToken
        context_tokens == IF raw_context_tokens > CumulativeContextTokens
                          THEN TypicalContextTokens ELSE raw_context_tokens
        total_tokens == Min(history_tokens + context_tokens, QContextWindow)
        percentage == RawPercentage(total_tokens, QContextWindow)
    IN [history_tokens |-> history_tokens,
        context_tokens |-> context_tokens,
        total_tokens |-> total_tokens,
        context_window |-> QContextWindow,
        percentage |-> percentage,
        compaction_status |-> CompactionStatusOf(percentage)]

\* QDatabase::get_token_usage, from the characters of the serialised history
\* and context_message_length.unwrap_or(0).
QGetTokenUsage(history_chars, raw_context_tokens) ==
    LET history_tokens == history_chars \div CharsPerToken
        context_tokens == ContextTokens(raw_context_tokens)
        total_tokens == Min(history_tokens + context_tokens, QContextWindow)
        raw_percentage == RawPercentage(total_tokens, QContextWindow)
        percentage == IF PctLe(Percent(100, 1), raw_percentage) THEN Percent(100, 1)
                      ELSE IF PctLt(Percent(999, 10), raw_percentage) THEN Percent(999, 10)
                      ELSE raw_percentage
    IN [history_tokens |-> history_tokens,
        context_tokens |-> context_tokens,
        total_tokens |-> total_tokens,
        context_window |-> QContextWindow,
        percentage |-> percentage,
        compaction_status |-> CompactionStatusOf(percentage)]

\* ClaudeTokenUsage::total.
UsageTotal(u) ==
    u.input_tokens + u.output_tokens + u.cache_creation_input_tokens
        + u.cache_read_input_tokens

\* Option::None of ClaudeSession.context_tokens.
NoContext == [none |-> TRUE]

\* ClaudeCodeDataSource::calculate_token_usage.
CalculateTokenUsage(session) ==
    LET ctx == session.context_tokens
        total_tokens == IF ctx # NoContext THEN UsageTotal(ctx)
                        ELSE UsageTotal(session.total_tokens)
        history_tokens == IF ctx # NoContext THEN ctx.cache_read_input_tokens
                          ELSE session.total_tokens.input_tokens
                               + session.total_tokens.cache_read_input_tokens
        context_tokens == IF ctx # NoContext THEN ctx.cache_creation_input_tokens
                          ELSE session.total_tokens.output_tokens
                               + session.total_tokens.cache_creation_input_tokens
        percentage == RawPercentage(total_tokens, ClaudeContextWindow)
    IN [history_tokens |-> history_tokens,
        context_tokens |-> context_tokens,
        total_tokens |-> total_tokens,
        context_window |-> ClaudeContextWindow,
        percentage |-> percentage,
        compaction_status |-> CompactionStatusOf(percentage)]

\* AppState::update_token_usage, the details it builds.
UpdateTokenUsage(used) ==
    [history_tokens |-> used,
     context_tokens |-> 0,
     total_tokens |-> used,
     context_window |-> LegacyContextWindow,
     percentage |-> RawPercentage(used, LegacyContextWindow),
     compaction_status |-> CompactionStatusOf(RawPercentage(used, LegacyContextWindow))]

\* AppState::update_token_usage_details, the fields copied into token_usage.
PublishedUsage(details) ==
    [used |-> details.total_tokens,
     limit |-> details.context_window,
     percentage |-> details.percentage,
     history_tokens |-> details.history_tokens,
     context_tokens |-> details.context_tokens,
     context_window |-> details.context_window,
     compaction_status |-> details.compaction_status]

\* Per mille of a context window where the percentage or the status changes,
\* and one point beyond the window.
PermilleMarks == {0, 700, 900, 950, 999, 1000, 1250}

\* Token counts around those points of either window.
TokenSamples ==
    {t \in {(w * k) \div 1000 + d :
              w \in {QContextWindow, ClaudeContextWindow},
              k \in PermilleMarks, d \in (0 - MaxDelta) .. MaxDelta} : t >= 0}

\* The sessions load_jsonl_files builds: cumulative totals, context_tokens None.
SessionSamples ==
    [total_tokens : [input_tokens : TokenSamples, output_tokens : {0, 1},
                     cache_creation_input_tokens : {0, 1},
                     cache_read_input_tokens : {0, 1}],
     context_tokens : {NoContext}]

UsageInit ==
    /\ AllOff
    /\ calc \in [phase : {"usage_input"}, producer : {"QDatabase"},
                 history_chars : {CharsPerToken * t + r : t \in TokenSamples, r \in {0, 3}},
                 context_message_length :
                     {<<>>, <<0>>, <<TypicalContextTokens + 1>>,
                      <<CumulativeContextTokens>>, <<CumulativeContextTokens + 1>>}]
          \cup [phase : {"usage_input"}, producer : {"ClaudeCode"},
                session : SessionSamples]
          \cup [phase : {"usage_input"}, producer : {"AppState"},
                used : TokenSamples]

\* collect_data: self.database.get_token_usage(&conv) on a QDatabase.
QUsageStep ==
    /\ calc.phase = "usage_input" /\ calc.producer = "QDatabase"
    /\ calc' = [phase |-> "usage_details", producer |-> calc.producer,
                context_message_length |-> calc.context_message_length,
                details |-> QGetTokenUsage(calc.history_chars,
                               RawContextTokens(calc.context_message_length))]
    /\ CalcUnchanged

\* collect_data: self.database.get_token_usage(&conv) on a ClaudeCodeDataSource.
ClaudeUsageStep ==
    /\ calc.phase = "usage_input" /\ calc.producer = "ClaudeCode"
    /\ calc' = [phase |-> "usage_details", producer |-> calc.producer,
                details |-> CalculateTokenUsage(calc.session)]
    /\ CalcUnchanged

\* AppState::update_token_usage(used).
LegacyUsageStep ==
    /\ calc.phase = "usage_input" /\ calc.producer = "AppState"
    /\ calc' = [phase |-> "usage_details", producer |-> calc.producer,
                details |-> UpdateTokenUsage(calc.used)]
    /\ CalcUnchanged

\* usage.limit - usage.used on u64: the difference, or, when used exceeds
\* limit, a panic in a build with overflow checks and 2^64 - (used - limit)
\* in a build without.
RemainingCapacity(limit, used, overflow_checks) ==
    IF used <= limit THEN [outcome |-> "difference", tokens |-> limit - used]
    ELSE IF overflow_checks THEN [outcome |-> "panic", tokens |-> 0]
    ELSE [outcome |-> "wrapped", tokens |-> used - limit]

\* The estimate of update_token_usage_details, lines 123-137: the
\* subtraction is evaluated when time has passed since last_update and the
\* total has grown.
RemainingEstimate(usage, old_used, time_diff, overflow_checks) ==
    IF time_diff > 0 /\ usage.used > old_used
    THEN RemainingCapacity(usage.limit, usage.used, overflow_checks)
    ELSE [outcome |-> "none", tokens |-> 0]

\* usage.used before an update: 0 in a new AppState, or a total published
\* before.
OldUsedSamples == {0, QContextWindow}

\* self.state.update_token_usage_details(usage_details), some whole seconds
\* (here the minutes of time_diff) after last_update was stamped.
PublishUsage ==
    /\ calc.phase = "usage_details"
    /\ \E old_used \in OldUsedSamples, time_diff \in {0, 1},
          overflow_checks \in BOOLEAN :
         calc' = [phase |-> "usage_published", producer |-> calc.producer,
                  details |-> calc.details, usage |-> PublishedUsage(calc.details),
                  old_used |-> old_used, time_diff |-> time_diff,
                  remaining |-> RemainingEstimate(PublishedUsage(calc.details),
                                                  old_used, time_diff,
                                                  overflow_checks)]
    /\ CalcUnchanged

UsageNext == QUsageStep \/ ClaudeUsageStep \/ LegacyUsageStep \/ PublishUsage

UsageSpec == UsageInit /\ [][UsageNext]_vars

\* ------------------------------------------------------ session blocks

\* Time is counted in HourUnits steps per hour, from the start of an hour;
\* three steps let a record fall after the hour and before a gap's start.
HourUnits == 3
\* The latest timestamp tried, and the longest list of entries.
MaxTime == 16
MaxEntries == 3

\* DEFAULT_SESSION_DURATION_HOURS.
DefaultSessionDurationHours == 5

\* Option::None of a DateTime: date() of a timestamp that is not RFC 3339,
\* and actual_end_time of a gap block.
NoTime == 0 - 1

\* ClaudeUsageEntry::date: the parsed instant, or None.
Date(e) == e.timestamp

\* floor_to_hour that keeps the minutes: the block starts at the first entry.
FloorToHourExact(t) == t

\* floor_to_hour.
FloorToHour(t) == (t \div HourUnits) * HourUnits

\* Duration::hours(session_duration_hours).
DurationHours(h) == h * HourUnits

ZeroCounts ==
    [input_tokens |-> 0, output_tokens |-> 0,
     cache_creation_input_tokens |-> 0, cache_read_input_tokens |-> 0]

\* The aggregation loop of create_block without the two cache categories.
RECURSIVE SumCountsWithoutCache(_)
SumCountsWithoutCache(es) ==
    IF es = <<>> THEN [counts |-> ZeroCounts, cost |-> 0]
    ELSE LET r == SumCountsWithoutCache(Tail(es))
             u == Head(es).usage
         IN [counts |->
               [input_tokens |-> r.counts.input_tokens + u.input_tokens,
                output_tokens |-> r.counts.output_tokens + u.output_tokens,
                cache_creation_input_tokens |-> 0,
                cache_read_input_tokens |-> 0],
             cost |-> r.cost + Head(es).cost_usd]

\* The aggregation loop of create_block; cost_usd is counted in cents.
RECURSIVE SumCounts(_)
SumCounts(es) ==
    IF es = <<>> THEN [counts |-> ZeroCounts, cost |-> 0]
    ELSE LET r == SumCounts(Tail(es))
             u == Head(es).usage
         IN [counts |->
               [input_tokens |-> r.counts.input_tokens + u.input_tokens,
                output_tokens |-> r.counts.output_tokens + u.output_tokens,
                cache_creation_input_tokens |->
                    r.counts.cache_creation_input_tokens + u.cache_creation_input_tokens,
                cache_read_input_tokens |->
                    r.counts.cache_read_input_tokens + u.cache_read_input_tokens],
             cost |-> r.cost + Head(es).cost_usd]

\* create_block that ends a block still open at the time of the build.
CreateBlockOpenEnded(start_time, entries, wall, session_duration) ==
    LET actual_end_time == IF entries = <<>> \/ Date(entries[Len(entries)]) = NoTime
                           THEN start_time ELSE Date(entries[Len(entries)])
        is_active == (wall - actual_end_time) < session_duration
                     /\ wall < start_time + session_duration
        sums == SumCounts(entries)
    IN [start_time |-> start_time,
        end_time |-> IF is_active /\ wall > start_time THEN wall
                     ELSE start_time + session_duration,
        actual_end_time |-> actual_end_time,
        is_active |-> is_active,
        is_gap |-> FALSE,
        entries |-> entries,
        token_counts |-> sums.counts,
        cost_usd |-> sums.cost]

\* create_block whose activity test leaves out now < end_time.
CreateBlockActiveByLastEntry(start_time, entries, wall, session_duration) ==
    LET end_time == start_time + session_duration
        actual_end_time == IF entries = <<>> \/ Date(entries[Len(entries)]) = NoTime
                           THEN start_time ELSE Date(entries[Len(entries)])
        sums == SumCounts(entries)
    IN [start_time |-> start_time,
        end_time |-> end_time,
        actual_end_time |-> actual_end_time,
        is_active |-> (wall - actual_end_time) < session_duration,
        is_gap |-> FALSE,
        entries |-> entries,
        token_counts |-> sums.counts,
        cost_usd |-> sums.cost]

\* create_block whose activity test compares now with the block's start_time
\* where the code compares it with end_time.
CreateBlockActiveByStart(start_time, entries, wall, session_duration) ==
    LET end_time == start_time + session_duration
        actual_end_time == IF entries = <<>> \/ Date(entries[Len(entries)]) = NoTime
                           THEN start_time ELSE Date(entries[Len(entries)])
        sums == SumCounts(entries)
    IN [start_time |-> start_time,
        end_time |-> end_time,
        actual_end_time |-> actual_end_time,
        is_active |-> (wall - actual_end_time) < session_duration
                        /\ start_time <= wall,
        is_gap |-> FALSE,
        entries |-> entries,
        token_counts |-> sums.counts,
        cost_usd |-> sums.cost]

\* create_block.
CreateBlock(start_time, entries, wall, session_duration) ==
    LET end_time == start_time + session_duration
        actual_end_time == IF entries = <<>> \/ Date(entries[Len(entries)]) = NoTime
                           THEN start_time ELSE Date(entries[Len(entries)])
        sums == SumCounts(entries)
    IN [start_time |-> start_time,
        end_time |-> end_time,
        actual_end_time |-> actual_end_time,
        is_active |-> (wall - actual_end_time) < session_duration /\ wall < end_time,
        is_gap |-> FALSE,
        entries |-> entries,
        token_counts |-> sums.counts,
        cost_usd |-> sums.cost]

\* create_gap_block that starts the gap at the last activity itself.
CreateGapBlockFromActivity(last_activity_time, next_activity_time, session_duration) ==
    IF next_activity_time - last_activity_time <= session_duration
    THEN <<>>
    ELSE <<[start_time |-> last_activity_time,
            end_time |-> next_activity_time,
            actual_end_time |-> NoTime,
            is_active |-> FALSE,
            is_gap |-> TRUE,
            entries |-> <<>>,
            token_counts |-> ZeroCounts,
            cost_usd |-> 0]>>

\* create_gap_block: None (the empty sequence) unless the gap is longer than
\* the session duration.
CreateGapBlock(last_activity_time, next_activity_time, session_duration) ==
    IF next_activity_time - last_activity_time <= session_duration
    THEN <<>>
    ELSE <<[start_time |-> last_activity_time + session_duration,
            end_time |-> next_activity_time,
            actual_end_time |-> NoTime,
            is_active |-> FALSE,
            is_gap |-> TRUE,
            entries |-> <<>>,
            token_counts |-> ZeroCounts,
            cost_usd |-> 0]>>

\* sort_by_key on the parsed instant: a stable sort.
RECURSIVE InsertByTime(_, _)
InsertByTime(sorted, e) ==
    IF sorted = <<>> THEN <<e>>
    ELSE IF Date(sorted[Len(sorted)]) <= Date(e) THEN Append(sorted, e)
    ELSE Append(InsertByTime(SubSeq(sorted, 1, Len(sorted) - 1), e),
                sorted[Len(sorted)])

RECURSIVE SortByTime(_)
SortByTime(es) ==
    IF es = <<>> THEN <<>>
    ELSE InsertByTime(SortByTime(SubSeq(es, 1, Len(es) - 1)), es[Len(es)])

\* filter_map(|e| e.date().map(..)) without the sort.
SortedEntriesAsGiven(entries) ==
    SelectSeq(entries, LAMBDA e : Date(e) # NoTime)

\* filter_map(|e| e.date().map(..)) and the sort.
SortedEntries(entries) ==
    SortByTime(SelectSeq(entries, LAMBDA e : Date(e) # NoTime))

\* One iteration of the loop of identify_session_blocks over the state
\* (blocks, current_block_start, current_block_entries).
BlockLoopStep(st, entry, wall, session_duration) ==
    IF st.current_block_start = NoTime
    THEN [st EXCEPT !.current_block_start = FloorToHour(Date(entry)),
                    !.current_block_entries = <<entry>>]
    ELSE LET entry_time == Date(entry)
             block_start == st.current_block_start
             last_entry_time ==
                 Date(st.current_block_entries[Len(st.current_block_entries)])
             time_since_block_start == entry_time - block_start
             time_since_last_entry == entry_time - last_entry_time
         IN IF time_since_block_start > session_duration
               \/ time_since_last_entry > session_duration
            THEN [blocks |->
                     Append(st.blocks,
                            CreateBlock(block_start, st.current_block_entries,
                                        wall, session_duration))
                     \o (IF time_since_last_entry > session_duration
                         THEN CreateGapBlock(last_entry_time, entry_time,
                                             session_duration)
                         ELSE <<>>),
                  current_block_start |-> FloorToHour(entry_time),
                  current_block_entries |-> <<entry>>]
            ELSE [st EXCEPT !.current_block_entries = Append(@, entry)]

RECURSIVE BlockLoop(_, _, _, _)
BlockLoop(st, sorted, wall, session_duration) ==
    IF sorted = <<>> THEN st
    ELSE BlockLoop(BlockLoopStep(st, Head(sorted), wall, session_duration),
                   Tail(sorted), wall, session_duration)

\* identify_session_blocks(entries, Some(hours)) run at wall-clock time wall.
IdentifySessionBlocks(entries, hours, wall) ==
    IF entries = <<>> THEN <<>>
    ELSE LET session_duration == DurationHours(hours)
             st == BlockLoop([blocks |-> <<>>, current_block_start |-> NoTime,
                              current_block_entries |-> <<>>],
                             SortedEntries(entries), wall, session_duration)
         IN IF st.current_block_start # NoTime /\ st.current_block_entries # <<>>
            THEN Append(st.blocks,
                        CreateBlock(st.current_block_start, st.current_block_entries,
                                    wall, session_duration))
            ELSE st.blocks

\* Token usages and declared costs (cents) of the entries tried.
UsageSamples ==
    {[usage |-> [input_tokens |-> 1000, output_tokens |-> 500,
                 cache_creation_input_tokens |-> 0, cache_read_input_tokens |-> 0],
      cost_usd |-> 1],
     [usage |-> [input_tokens |-> 1, output_tokens |-> 2,
                 cache_creation_input_tokens |-> 3, cache_read_input_tokens |-> 4],
      cost_usd |-> 0]}

EntrySamples ==
    {[timestamp |-> t, usage |-> u.usage, cost_usd |-> u.cost_usd] :
        t \in (0 .. MaxTime) \cup {NoTime}, u \in UsageSamples}

EntryLists == UNION {[1 .. n -> EntrySamples] : n \in 0 .. MaxEntries}

\* Block durations tried, in hours.
DurationSamples == {2, DefaultSessionDurationHours}

\* Wall-clock times at which a build runs: before, amid, and after, the
\* entries.
WallSamples == {0, MaxTime \div 2, MaxTime + 1}

BlocksInit ==
    /\ AllOff
    /\ calc \in [phase : {"blocks_input"}, entries : EntryLists,
                 hours : DurationSamples]

\* identify_session_blocks at some wall-clock time.
BuildBlocks ==
    /\ calc.phase = "blocks_input"
    /\ \E wall \in WallSamples :
         calc' = [phase |-> "blocks_built", entries |-> calc.entries,
                  hours |-> calc.hours, wall |-> wall,
                  blocks |-> IdentifySessionBlocks(calc.entries, calc.hours, wall)]
    /\ CalcUnchanged

\* The next aggregation pass: the same entries and duration, built again at
\* another wall-clock time.
RebuildBlocks ==
    /\ calc.phase = "blocks_built"
    /\ \E wall \in WallSamples :
         calc' = [phase |-> "blocks_rebuilt", entries |-> calc.entries,
                  hours |-> calc.hours, wall |-> wall,
                  blocks |-> IdentifySessionBlocks(calc.entries, calc.hours, wall),
                  first |-> [wall |-> calc.wall, blocks |-> calc.blocks]]
    /\ CalcUnchanged

BlocksNext == BuildBlocks \/ RebuildBlocks

BlocksSpec == BlocksInit /\ [][BlocksNext]_vars

\* The orders in which a caller can hand over a list of n records.
InputOrders(n) ==
    {p \in [1 .. n -> 1 .. n] : \A i, j \in 1 .. n : p[i] = p[j] => i = j}

ReorderInit ==
    /\ AllOff
    /\ calc \in [phase : {"reorder_input"}, entries : EntryLists,
                 hours : DurationSamples]

\* identify_session_blocks over the records as given and over the same
\* records handed over in another order.
BuildBlocksReordered ==
    /\ calc.phase = "reorder_input"
    /\ \E wall \in WallSamples, p \in InputOrders(Len(calc.entries)) :
         LET reordered == [i \in 1 .. Len(calc.entries) |-> calc.entries[p[i]]]
         IN calc' = [phase |-> "reordered", entries |-> calc.entries,
                     hours |-> calc.hours, wall |-> wall,
                     blocks |-> IdentifySessionBlocks(calc.entries, calc.hours, wall),
                     reordered |-> reordered,
                     reordered_blocks |->
                         IdentifySessionBlocks(reordered, calc.hours, wall)]
    /\ CalcUnchanged

ReorderNext == BuildBlocksReordered

ReorderSpec == ReorderInit /\ [][ReorderNext]_vars

\* ---------------------------------------------------------- cost model

\* str::starts_with, str::contains, str::replace and str::to_lowercase on the
\* ASCII names tried.
StartsWith(s, p) == Len(s) >= Len(p) /\ SubSeq(s, 1, Len(p)) = p

Contains(s, p) ==
    \E i \in 1 .. (Len(s) - Len(p) + 1) : SubSeq(s, i, i + Len(p) - 1) = p

RECURSIVE Replace(_, _, _)
Replace(s, from, to) ==
    IF Len(s) < Len(from) THEN s
    ELSE IF StartsWith(s, from)
         THEN to \o Replace(SubSeq(s, Len(from) + 1, Len(s)), from, to)
         ELSE SubSeq(s, 1, 1) \o Replace(SubSeq(s, 2, Len(s)), from, to)

UpperLetters == "ABCDEFGHIJKLMNOPQRSTUVWXYZ"
LowerLetters == "abcdefghijklmnopqrstuvwxyz"

LowerChar(c) ==
    IF \E i \in 1 .. Len(UpperLetters) : SubSeq(UpperLetters, i, i) = c
    THEN LET i == CHOOSE i \in 1 .. Len(UpperLetters) : SubSeq(UpperLetters, i, i) = c
         IN SubSeq(LowerLetters, i, i)
    ELSE c

RECURSIVE ToLowercase(_)
ToLowercase(s) ==
    IF Len(s) = 0 THEN s
    ELSE LowerChar(SubSeq(s, 1, 1)) \o ToLowercase(SubSeq(s, 2, Len(s)))

\* The loop of normalize_model_name over its four prefixes, in their order.
RECURSIVE StripPrefixes(_, _)
StripPrefixes(s, prefixes) ==
    IF prefixes = <<>> THEN s
    ELSE StripPrefixes(IF StartsWith(s, Head(prefixes))
                       THEN SubSeq(s, Len(Head(prefixes)) + 1, Len(s)) ELSE s,
                       Tail(prefixes))

\* CostCalculator::normalize_model_name.
NormalizeModelName(model) ==
    Replace(
      Replace(
        Replace(
          StripPrefixes(ToLowercase(model),
                        <<"anthropic/", "claude/", "bedrock/", "vertex/">>),
          "claude-3.5-", "claude-3-5-"),
        "claude3.5", "claude-3-5"),
      "claude3-", "claude-3-")

\* Option<T>: None is the empty sequence, Some(v) is <<v>>.
None == <<>>
Some(v) == <<v>>

\* Prices per token are counted in units of 1e-10 USD; a price per million
\* tokens is given in cents, a multiplier in hundredths.
PerTokenOfCentsPerMillion(c) == c * 100

\* ModelPricing::from_million_tokens, with its default multipliers 1.25 and
\* 0.10 (None is passed for both at every call of new).
FromMillionTokens(input_cents, output_cents, max_tokens) ==
    LET input_per_token == PerTokenOfCentsPerMillion(input_cents)
    IN [input_cost_per_token |-> Some(input_per_token),
        output_cost_per_token |-> Some(PerTokenOfCentsPerMillion(output_cents)),
        cache_creation_cost_per_token |-> Some((input_per_token * 125) \div 100),
        cache_read_cost_per_token |-> Some((input_per_token * 10) \div 100),
        max_tokens |-> Some(max_tokens)]

\* CostCalculator.default_model.
DefaultModel == "claude-3-5-sonnet-20241022"

\* CostCalculator::new: the built-in pricing table.
NewPricingData ==
    [m \in {"claude-3-5-sonnet", "claude-3-5-sonnet-20241022",
            "claude-3-5-sonnet-latest", "claude-3-opus", "claude-3-opus-20240229",
            "claude-3-opus-latest", "claude-3-haiku", "claude-3-haiku-20240307",
            "claude-3-haiku-latest", "claude-3-5-haiku", "claude-3-5-haiku-20241022",
            "claude-2.1", "claude-2.0", "claude-instant-1.2"} |->
        IF Contains(m, "sonnet") THEN FromMillionTokens(300, 1500, 200000)
        ELSE IF Contains(m, "opus") THEN FromMillionTokens(1500, 7500, 200000)
        ELSE IF Contains(m, "3-5-haiku") THEN FromMillionTokens(100, 500, 200000)
        ELSE IF Contains(m, "haiku") THEN FromMillionTokens(25, 125, 200000)
        ELSE IF m = "claude-2.1" THEN FromMillionTokens(800, 2400, 200000)
        ELSE IF m = "claude-2.0" THEN FromMillionTokens(800, 2400, 100000)
        ELSE FromMillionTokens(80, 240, 100000)]

\* The pricing get_pricing falls back to when the table has no default model.
FallbackPricing ==
    [input_cost_per_token |-> Some(30000),
     output_cost_per_token |-> Some(150000),
     cache_creation_cost_per_token |-> Some(37500),
     cache_read_cost_per_token |-> Some(3000),
     max_tokens |-> Some(200000)]

\* Tables load_from_json can read: any map of names to pricing, here one
\* without the family and default entries, one with a single entry that
\* prices input only, and the empty map.
LoadedPricingData(tag) ==
    CASE tag = "new" -> NewPricingData
      [] tag = "dated_only" ->
            [m \in {"claude-3-opus-20240229", "claude-3-5-sonnet-latest"} |->
                NewPricingData[m]]
      [] tag = "custom" ->
            [m \in {"my-model"} |->
                [input_cost_per_token |-> Some(50000),
                 output_cost_per_token |-> None,
                 cache_creation_cost_per_token |-> None,
                 cache_read_cost_per_token |-> None,
                 max_tokens |-> None]]
      [] tag = "empty" -> [m \in {} |-> FallbackPricing]

TableTags == {"new", "dated_only", "custom", "empty"}

\* pricing_data.get(key).
Lookup(table, key) == IF key \in DOMAIN table THEN Some(table[key]) ELSE None

\* CostCalculator::fuzzy_match_model.
FuzzyMatchModel(table, model) ==
    IF Contains(model, "opus") THEN Lookup(table, "claude-3-opus")
    ELSE IF Contains(model, "sonnet") THEN Lookup(table, "claude-3-5-sonnet")
    ELSE IF Contains(model, "haiku")
         THEN IF Contains(model, "3-5") \/ Contains(model, "3.5")
              THEN Lookup(table, "claude-3-5-haiku")
              ELSE Lookup(table, "claude-3-haiku")
    ELSE IF Contains(model, "instant") THEN Lookup(table, "claude-instant-1.2")
    ELSE IF Contains(model, "claude-2") THEN Lookup(table, "claude-2.1")
    ELSE None

\* get_pricing whose last resort is a pricing with no prices at all.
GetPricingNoFallback(table, model) ==
    LET normalized == NormalizeModelName(model)
    IN IF Lookup(table, normalized) # None THEN Lookup(table, normalized)[1]
       ELSE IF FuzzyMatchModel(table, normalized) # None
            THEN FuzzyMatchModel(table, normalized)[1]
       ELSE IF Lookup(table, DefaultModel) # None THEN Lookup(table, DefaultModel)[1]
       ELSE [input_cost_per_token |-> None, output_cost_per_token |-> None,
             cache_creation_cost_per_token |-> None,
             cache_read_cost_per_token |-> None, max_tokens |-> None]

\* CostCalculator::get_pricing.
GetPricing(table, model) ==
    LET normalized == NormalizeModelName(model)
    IN IF Lookup(table, normalized) # None THEN Lookup(table, normalized)[1]
       ELSE IF FuzzyMatchModel(table, normalized) # None
            THEN FuzzyMatchModel(table, normalized)[1]
       ELSE IF Lookup(table, DefaultModel) # None THEN Lookup(table, DefaultModel)[1]
       ELSE FallbackPricing

\* Option<f64>/Option<u32> times a count: nothing is added for None.
CostOf(count, price) ==
    IF count = None \/ price = None THEN 0 ELSE count[1] * price[1]

\* calculate_cost_from_pricing that charges cache tokens at the input price.
CalculateCostFromPricingCacheAsInput(tokens, pricing) ==
    CostOf(Some(tokens.input_tokens), pricing.input_cost_per_token)
    + CostOf(Some(tokens.output_tokens), pricing.output_cost_per_token)
    + CostOf(tokens.cache_creation_input_tokens, pricing.input_cost_per_token)
    + CostOf(tokens.cache_read_input_tokens, pricing.input_cost_per_token)

\* CostCalculator::calculate_cost_from_pricing.
CalculateCostFromPricing(tokens, pricing) ==
    CostOf(Some(tokens.input_tokens), pricing.input_cost_per_token)
    + CostOf(Some(tokens.output_tokens), pricing.output_cost_per_token)
    + CostOf(tokens.cache_creation_input_tokens, pricing.cache_creation_cost_per_token)
    + CostOf(tokens.cache_read_input_tokens, pricing.cache_read_cost_per_token)

\* CostCalculator::calculate_from_tokens.
CalculateFromTokens(table, tokens, model) ==
    CalculateCostFromPricing(tokens, GetPricing(table, model))

\* calculate_cost whose Calculate mode prefers a declared cost, as Auto does.
CalculateCostPreferDeclared(table, tokens, model, mode, existing_cost) ==
    CASE mode = "Display" -> IF existing_cost = None THEN 0 ELSE existing_cost[1]
      [] mode \in {"Calculate", "Auto"} ->
            IF existing_cost # None /\ existing_cost[1] > 0 THEN existing_cost[1]
            ELSE CalculateFromTokens(table, tokens, model)

\* CostCalculator::calculate_cost.
CalculateCost(table, tokens, model, mode, existing_cost) ==
    CASE mode = "Display" -> IF existing_cost = None THEN 0 ELSE existing_cost[1]
      [] mode = "Calculate" -> CalculateFromTokens(table, tokens, model)
      [] mode = "Auto" ->
            IF existing_cost # None /\ existing_cost[1] > 0 THEN existing_cost[1]
            ELSE CalculateFromTokens(table, tokens, model)

CostModes == {"Auto", "Calculate", "Display"}

\* Model names tried: table entries, provider prefixes and spelling variants,
\* family names, and names of no family.
ModelNames ==
    {"claude-3-5-sonnet", "claude-3-5-sonnet-20241022", "claude-3-opus-20240229",
     "anthropic/claude-3-5-sonnet", "Vertex/Claude3-Haiku", "claude-3.5-haiku-next",
     "claude-opus-4", "claude-sonnet-4", "claude-instant", "claude-2-x",
     "my-model", "unknown-model-xyz", "",
     "anthropic/claude-3-opus-20240229", "claude/my-model"}

\* Token usages tried.
CostTokenSamples ==
    {[input_tokens |-> 1000, output_tokens |-> 500,
      cache_creation_input_tokens |-> None, cache_read_input_tokens |-> None],
     [input_tokens |-> 1000, output_tokens |-> 500,
      cache_creation_input_tokens |-> Some(100), cache_read_input_tokens |-> Some(200)],
     [input_tokens |-> 0, output_tokens |-> 0,
      cache_creation_input_tokens |-> Some(0), cache_read_input_tokens |-> None]}

\* Declared costs tried, in units of 1e-10 USD: none, zero, negative, $0.123.
DeclaredCosts == {None, Some(0), Some(0 - 5), Some(1230000000)}

CostInit ==
    /\ AllOff
    /\ calc \in [phase : {"cost_input"}, table : TableTags, model : ModelNames,
                 tokens : CostTokenSamples, mode : CostModes,
                 existing_cost : DeclaredCosts]

\* calculator.calculate_cost(&tokens, model, mode, existing_cost).
CalculateCostStep ==
    /\ calc.phase = "cost_input"
    /\ calc' = [calc EXCEPT !.phase = "cost_done"]
                 @@ [cost |-> CalculateCost(LoadedPricingData(calc.table), calc.tokens,
                                            calc.model, calc.mode, calc.existing_cost)]
    /\ CalcUnchanged

\* calculator.get_model_pricing(model).
GetModelPricingStep ==
    /\ calc.phase = "cost_input"
    /\ calc' = [phase |-> "pricing_done", table |-> calc.table, model |-> calc.model,
                pricing |-> GetPricing(LoadedPricingData(calc.table), calc.model)]
    /\ CalcUnchanged

\* The provider prefixes normalize_model_name knows, in letter-case variants.
PrefixVariants ==
    {"anthropic/", "Anthropic/", "claude/", "CLAUDE/", "bedrock/", "Bedrock/",
     "vertex/", "VERTEX/"}

\* A second call on the same calculator with the same tokens, for the model
\* name under a provider prefix (as test_model_name_normalization calls twice).
CalculateCostPrefixedStep ==
    /\ calc.phase = "cost_done"
    /\ \E p \in PrefixVariants :
         calc' = [calc EXCEPT !.phase = "cost_prefixed"]
                   @@ [prefix |-> p,
                       prefixed_cost |->
                           CalculateCost(LoadedPricingData(calc.table), calc.tokens,
                                         p \o calc.model, calc.mode,
                                         calc.existing_cost)]
    /\ CalcUnchanged

CostNext == CalculateCostStep \/ GetModelPricingStep \/ CalculateCostPrefixedStep

CostSpec == CostInit /\ [][CostNext]_vars

\* ---------------------------------------------------------------- burn rate

\* Rates are exact fractions: a rate in tokens per minute is the record
\* [n, k] of value n / (2 * 10^k).  Elapsed time is counted in whole minutes
\* of at most two, so an instant rate is a whole number of half tokens, and
\* each smoothing step adds one decimal digit.
MaxUpdates == 4
MaxTotal == 3

\* EMA_ALPHA = 0.3, in tenths.
EmaAlphaTenths == 3

\* The snapshots kept for the sparkline.
SnapshotCap == 10

\* AppConfig::default().cost_per_1k_tokens = 0.0066, in units of 1e-4 USD.
DefaultCostPer1kTokens == 66

RECURSIVE Pow(_, _)
Pow(b, k) == IF k = 0 THEN 1 ELSE b * Pow(b, k - 1)

Abs(x) == IF x < 0 THEN 0 - x ELSE x

\* The instant rate without its floor at zero.
InstantRateSigned(total_tokens, last_total_tokens, minutes_elapsed) ==
    IF minutes_elapsed > 0 /\ last_total_tokens > 0
    THEN LET token_diff == total_tokens - last_total_tokens
         IN IF token_diff < 0
            THEN 0 - ((2 * (0 - token_diff)) \div minutes_elapsed)
            ELSE (2 * token_diff) \div minutes_elapsed
    ELSE 0

\* calculate_burn_rate's instant_rate, in half tokens per minute:
\* (token_diff / minutes_elapsed).max(0.0), or 0.0 when no time has passed or
\* no total was recorded before.
InstantRate(total_tokens, last_total_tokens, minutes_elapsed) ==
    IF minutes_elapsed > 0 /\ last_total_tokens > 0
    THEN LET token_diff == total_tokens - last_total_tokens
         IN IF token_diff < 0 THEN 0
            ELSE (2 * token_diff) \div minutes_elapsed
    ELSE 0

\* The smoothing with its two weights exchanged.
EmaSwapped(instant_rate, previous) ==
    [n |-> (10 - EmaAlphaTenths) * instant_rate * Pow(10, previous.k)
             + EmaAlphaTenths * previous.n,
     k |-> previous.k + 1]

\* EMA_ALPHA * instant_rate + (1.0 - EMA_ALPHA) * ema_tokens_per_minute.
Ema(instant_rate, previous) ==
    [n |-> EmaAlphaTenths * instant_rate * Pow(10, previous.k)
             + (10 - EmaAlphaTenths) * previous.n,
     k |-> previous.k + 1]

\* push_back, then pop_back while more than SnapshotCap are kept.
PushSnapshotKeepOldest(snapshots, s) ==
    LET all == Append(snapshots, s)
    IN IF Len(all) > SnapshotCap THEN SubSeq(all, 1, SnapshotCap) ELSE all

\* push_back, then pop_front while more than SnapshotCap are kept.
PushSnapshot(snapshots, s) ==
    LET all == Append(snapshots, s)
    IN IF Len(all) > SnapshotCap
       THEN SubSeq(all, Len(all) - SnapshotCap + 1, Len(all)) ELSE all

\* The burn-rate state of a new AppState: nothing observed yet.
NewBurnRate(t) ==
    [ema_tokens_per_minute |-> [n |-> 0, k |-> 0],
     tokens_per_minute |-> [n |-> 0, k |-> 0],
     cost_per_minute |-> [n |-> 0, k |-> 0],
     last_update |-> t, last_total_tokens |-> 0, snapshots |-> <<>>]

\* DataCollector::calculate_burn_rate on the burn-rate cell, for the total of
\* all sessions' tokens and the wall clock read.  cost_per_minute is counted
\* in units of 1e-7 USD per half token per minute: n * cost_per_1k_tokens.
BurnRateAfter(burn_rate, total_tokens, t, cost_per_1k_tokens) ==
    LET minutes_elapsed == t - burn_rate.last_update
        instant_rate ==
            InstantRate(total_tokens, burn_rate.last_total_tokens, minutes_elapsed)
        ema == IF burn_rate.last_total_tokens = 0
               THEN [n |-> instant_rate, k |-> 0]
               ELSE Ema(instant_rate, burn_rate.ema_tokens_per_minute)
    IN [ema_tokens_per_minute |-> ema,
        tokens_per_minute |-> ema,
        cost_per_minute |-> [n |-> ema.n * cost_per_1k_tokens, k |-> ema.k],
        last_update |-> t,
        last_total_tokens |-> total_tokens,
        snapshots |-> PushSnapshot(burn_rate.snapshots,
                                   [timestamp |-> t, total_tokens |-> total_tokens])]

\* The rate of update_token_usage_details, in half tokens per minute:
\* (total_tokens - old_used).max(0) / time_diff when time has passed, else the
\* rate is left as it was.
RatePerMinute(total_tokens, old_used, time_diff, old_rate) ==
    IF time_diff > 0
    THEN LET d == total_tokens - old_used
         IN (2 * (IF d < 0 THEN 0 ELSE d)) \div time_diff
    ELSE old_rate

\* time_remaining of update_token_usage_details: when time has passed and
\* the new rate is positive, (limit - used) / rate minutes, kept as the pair
\* of the tokens left and the rate; otherwise left as it was.  The totals
\* tried stay below the limit, so limit - used does not wrap.
TimeRemaining(limit, used, time_diff, rate, old_remaining) ==
    IF time_diff > 0 /\ rate > 0 THEN Some(<<limit - used, rate>>)
    ELSE old_remaining

\* Totals of all sessions' tokens tried, and minutes between two readings of
\* the wall clock (Local::now is not monotonic: it may stand still or go back).
BurnTotals == 0 .. MaxTotal
ElapsedSamples == {0 - 1, 0, 1, 2}
CostPer1kSamples == {0, DefaultCostPer1kTokens}

\* The observations of one update, kept for the properties: the total read,
\* the one before, the minutes elapsed, the instant rate and the rates stored.
Observation(before, after, t) ==
    [timestamp |-> t,
     total_tokens |-> after.last_total_tokens,
     last_total_tokens |-> before.last_total_tokens,
     minutes_elapsed |-> t - before.last_update,
     instant_rate |-> InstantRate(after.last_total_tokens, before.last_total_tokens,
                                  t - before.last_update),
     previous |-> before.ema_tokens_per_minute,
     ema_tokens_per_minute |-> after.ema_tokens_per_minute,
     tokens_per_minute |-> after.tokens_per_minute,
     cost_per_minute |-> after.cost_per_minute]

BurnInit ==
    /\ AllOff
    /\ calc \in [phase : {"burn"}, clock : {0}, burn_rate : {NewBurnRate(0)},
                 cost_per_1k_tokens : CostPer1kSamples,
                 used : {0}, rate_per_minute : {0}, time_remaining : {None},
                 usage_last_update : {0}, updates : {0}, trace : {<<>>}]

\* One refresh reaches calculate_burn_rate: the wall clock is read and the
\* sessions' tokens are summed.
BurnRateStep ==
    /\ calc.phase = "burn"
    /\ calc.updates < MaxUpdates
    /\ \E total_tokens \in BurnTotals, e \in ElapsedSamples :
         LET t == calc.clock + e
             after == BurnRateAfter(calc.burn_rate, total_tokens, t,
                                    calc.cost_per_1k_tokens)
         IN calc' = [calc EXCEPT !.clock = t, !.burn_rate = after,
                       !.updates = @ + 1,
                       !.trace = Append(@, Observation(calc.burn_rate, after, t))]
    /\ CalcUnchanged

\* One refresh reaches update_token_usage_details: the rate of the token
\* usage cell follows the change of the current conversation's total.
TokenRateStep ==
    /\ calc.phase = "burn"
    /\ calc.updates < MaxUpdates
    /\ \E total_tokens \in BurnTotals, e \in ElapsedSamples :
         LET t == calc.clock + e
         IN calc' = [calc EXCEPT
                       !.clock = t, !.used = total_tokens, !.updates = @ + 1,
                       !.rate_per_minute =
                           RatePerMinute(total_tokens, calc.used,
                                         t - calc.usage_last_update, @),
                       !.time_remaining =
                           TimeRemaining(QContextWindow, total_tokens,
                                         t - calc.usage_last_update,
                                         RatePerMinute(total_tokens, calc.used,
                                             t - calc.usage_last_update,
                                             calc.rate_per_minute), @),
                       !.usage_last_update = t]
    /\ CalcUnchanged

BurnNext == BurnRateStep \/ TokenRateStep

BurnSpec == BurnInit /\ [][BurnNext]_vars

\* Refreshes, one minute apart, that found no session before the updates
\* that are followed: they leave the queue two short of its cap.
QuietRefreshes == 8

\* The burn-rate cell, the clock and the observations after k refreshes one
\* minute apart that each summed zero tokens.
RECURSIVE AfterQuietRefreshes(_, _)
AfterQuietRefreshes(k, cost_per_1k_tokens) ==
    IF k = 0 THEN [clock |-> 0, burn_rate |-> NewBurnRate(0), trace |-> <<>>]
    ELSE LET b == AfterQuietRefreshes(k - 1, cost_per_1k_tokens)
             after == BurnRateAfter(b.burn_rate, 0, b.clock + 1, cost_per_1k_tokens)
         IN [clock |-> b.clock + 1, burn_rate |-> after,
             trace |-> Append(b.trace, Observation(b.burn_rate, after, b.clock + 1))]

SnapshotInit ==
    /\ AllOff
    /\ \E c \in CostPer1kSamples :
         LET b == AfterQuietRefreshes(QuietRefreshes, c)
         IN calc = [phase |-> "snapshots", clock |-> b.clock,
                    burn_rate |-> b.burn_rate, cost_per_1k_tokens |-> c,
                    updates |-> 0, trace |-> b.trace]

\* One more refresh reaches calculate_burn_rate.
SnapshotStep ==
    /\ calc.phase = "snapshots"
    /\ calc.updates < MaxUpdates
    /\ \E total_tokens \in BurnTotals, e \in ElapsedSamples :
         LET t == calc.clock + e
             after == BurnRateAfter(calc.burn_rate, total_tokens, t,
                                    calc.cost_per_1k_tokens)
         IN calc' = [calc EXCEPT !.clock = t, !.burn_rate = after,
                       !.updates = @ + 1,
                       !.trace = Append(@, Observation(calc.burn_rate, after, t))]
    /\ CalcUnchanged

SnapshotNext == SnapshotStep

SnapshotSpec == SnapshotInit /\ [][SnapshotNext]_vars

\* ------------------------------------------------------------ usage records

\* The lines of the JSONL files under the Claude projects directory, in the
\* order they are read, and the rows of the conversations table, in rowid
\* order.
MaxLines == 3

\* ClaudeTokenUsage::total for the usages tried: input tokens only.
EntryUsage(e) ==
    [input_tokens |-> e.tokens, output_tokens |-> 0,
     cache_creation_input_tokens |-> None, cache_read_input_tokens |-> None]

\* The key of the seen_ids set: request_id, or message.id, or
\* format!("{}-{}", timestamp, total).
UniqueId(e) ==
    IF e.request_id # None THEN e.request_id[1]
    ELSE IF e.message_id # None THEN e.message_id[1]
    ELSE ToString(e.timestamp) \o "-" \o ToString(e.tokens)

\* serde_json::from_str::<ClaudeUsageEntry>(line) is Ok.
ParsesAsEntry(line) == line.kind = "entry"

\* The loop over the lines without the seen_ids test: every parsed entry is
\* pushed.
RECURSIVE ReadLinesKeepAll(_, _, _)
ReadLinesKeepAll(lines, seen_ids, all_entries) ==
    IF lines = <<>> THEN all_entries
    ELSE LET line == Head(lines)
         IN IF ~ParsesAsEntry(line)
            THEN ReadLinesKeepAll(Tail(lines), seen_ids, all_entries)
            ELSE ReadLinesKeepAll(Tail(lines), seen_ids \cup {UniqueId(line)},
                                  Append(all_entries,
                                         [line EXCEPT !.cwd = Some("project")]))

\* The loop of load_jsonl_files over the lines: blank and malformed lines
\* are skipped, an entry whose unique id was seen is skipped, any other is
\* pushed with its cwd filled in.
RECURSIVE ReadLines(_, _, _)
ReadLines(lines, seen_ids, all_entries) ==
    IF lines = <<>> THEN all_entries
    ELSE LET line == Head(lines)
         IN IF ~ParsesAsEntry(line)
            THEN ReadLines(Tail(lines), seen_ids, all_entries)
            ELSE IF UniqueId(line) \in seen_ids
            THEN ReadLines(Tail(lines), seen_ids, all_entries)
            ELSE ReadLines(Tail(lines), seen_ids \cup {UniqueId(line)},
                           Append(all_entries,
                                  [line EXCEPT !.cwd = Some("project")]))

\* all_entries.sort_by(timestamp): a stable sort.
RECURSIVE InsertByTimestamp(_, _)
InsertByTimestamp(sorted, e) ==
    IF sorted = <<>> THEN <<e>>
    ELSE IF sorted[Len(sorted)].timestamp <= e.timestamp THEN Append(sorted, e)
    ELSE Append(InsertByTimestamp(SubSeq(sorted, 1, Len(sorted) - 1), e),
                sorted[Len(sorted)])

RECURSIVE SortByTimestamp(_)
SortByTimestamp(es) ==
    IF es = <<>> THEN <<>>
    ELSE InsertByTimestamp(SortByTimestamp(SubSeq(es, 1, Len(es) - 1)),
                           es[Len(es)])

\* ClaudeCodeDataSource::load_jsonl_files: Ok(all_entries), for directories
\* and files that can be read.
LoadJsonlFiles(lines) == SortByTimestamp(ReadLines(lines, {}, <<>>))

\* ClaudeCodeDataSource::calculate_cost of an entry: its declared cost when
\* positive, else the calculator's, in the data source's cost mode.
EntryCost(e, cost_mode) ==
    IF e.cost_usd # None /\ e.cost_usd[1] > 0 THEN e.cost_usd[1]
    ELSE CalculateCost(NewPricingData, EntryUsage(e), DefaultModel, cost_mode,
                       e.cost_usd)

\* The key of sessions_map for an entry.
SessionIdOf(e) ==
    IF e.session_id # None THEN e.session_id[1]
    ELSE "no-session-" \o ToString(e.timestamp)

\* group_into_sessions: one session per session id, with the entries of that
\* id in their order.  The sessions are given as a set: the vector's order
\* comes from a HashMap's iteration, sorted by end_time.
GroupIntoSessions(entries, cost_mode) ==
    {LET mine == SelectSeq(entries, LAMBDA e : SessionIdOf(e) = id)
         RECURSIVE Sum(_, _)
         Sum(f(_), k) == IF k = 0 THEN 0 ELSE f(mine[k]) + Sum(f, k - 1)
         Tokens(e) == e.tokens
         Cost(e) == EntryCost(e, cost_mode)
         Declared(e) == IF e.cost_usd # None /\ e.cost_usd[1] > 0
                        THEN EntryCost(e, cost_mode) ELSE 0
     IN [id |-> id,
         start_time |-> mine[1].timestamp,
         end_time |-> mine[Len(mine)].timestamp,
         entries |-> mine,
         total_tokens |-> Sum(Tokens, Len(mine)),
         total_cost |-> Sum(Cost, Len(mine)),
         from_jsonl |-> Sum(Declared, Len(mine))] :
     id \in {SessionIdOf(entries[i]) : i \in 1 .. Len(entries)}}

\* serde_json::from_str::<QConversation>(json_str) is Ok.
ParsesAsConversation(row) == row.ok

\* QDatabase::get_all_conversation_summaries: one summary per row that
\* parses, given as the set of their rowids.
GetAllConversationSummaries(rows) ==
    {i \in 1 .. Len(rows) : ParsesAsConversation(rows[i])}

\* QDatabase::get_current_conversation: the row of the greatest rowid, parsed
\* with `?`: Ok(None) for an empty table, Err when that row does not parse.
GetCurrentConversation(rows) ==
    IF rows = <<>> THEN [ok |-> TRUE, value |-> None]
    ELSE IF ParsesAsConversation(rows[Len(rows)])
         THEN [ok |-> TRUE, value |-> Some(Len(rows))]
         ELSE [ok |-> FALSE, value |-> None]

\* DataCollector::collect_data over a QDatabase whose table holds rows: the
\* cells written, whether the DatabaseUpdate event is sent, and the result.
\* The list getters skip rows that do not parse; get_current_conversation's
\* error leaves collect_data by `?` before the token usage, the current
\* conversation, the cost analysis and the burn rate are written.
CollectDataOverRows(rows) ==
    LET summaries == GetAllConversationSummaries(rows)
        lists == [all_conversations |-> summaries, all_sessions |-> summaries,
                  directory_groups |-> summaries, global_stats |-> summaries,
                  period_metrics |-> summaries]
        conversation == GetCurrentConversation(rows)
    IN IF ~conversation.ok
       THEN [result |-> "Err", written |-> lists, event |-> FALSE]
       ELSE [result |-> "Ok",
             written |-> lists @@ [token_usage |-> conversation.value,
                                   current_conversation |-> conversation.value,
                                   cost_analysis |-> conversation.value,
                                   burn_rate |-> summaries],
             event |-> conversation.value # None]

\* Lines tried: blank, malformed, and entries with and without a request id,
\* a message id (one of them equal to another entry's request id), a session
\* id and a declared cost.
IdSamples ==
    {[request_id |-> None, message_id |-> None],
     [request_id |-> Some("req-1"), message_id |-> Some("msg-1")],
     [request_id |-> Some("req-2"), message_id |-> Some("msg-1")],
     [request_id |-> None, message_id |-> Some("msg-1")],
     [request_id |-> None, message_id |-> Some("req-1")]}

LineSamples ==
    {[kind |-> "blank"], [kind |-> "malformed"]}
    \cup
    {[kind |-> "entry", timestamp |-> t, session_id |-> u.session_id,
      request_id |-> d.request_id, message_id |-> d.message_id,
      tokens |-> u.tokens, cost_usd |-> u.cost_usd, cwd |-> None] :
        t \in {1, 2}, d \in IdSamples,
        u \in {[tokens |-> 100, cost_usd |-> None, session_id |-> Some("session-1")],
               [tokens |-> 200, cost_usd |-> Some(50000), session_id |-> None]}}

LineLists == UNION {[1 .. n -> LineSamples] : n \in 0 .. MaxLines}

\* Rows tried: conversations whose JSON parses or does not.
RowLists == UNION {[1 .. n -> [ok : BOOLEAN]] : n \in 0 .. MaxLines}

\* The lines without every entry whose request id (or, without one, message
\* id) an earlier entry of the lines carries.
HasId(line) ==
    line.kind = "entry" /\ (line.request_id # None \/ line.message_id # None)

FirstOccurrences(lines) ==
    LET keep == {i \in 1 .. Len(lines) :
                    ~(HasId(lines[i]) /\ \E j \in 1 .. (i - 1) :
                          HasId(lines[j]) /\ UniqueId(lines[j]) = UniqueId(lines[i]))}
        RECURSIVE Pick(_)
        Pick(i) == IF i > Len(lines) THEN <<>>
                   ELSE IF i \in keep THEN <<lines[i]>> \o Pick(i + 1)
                   ELSE Pick(i + 1)
    IN Pick(1)

RecordsInit ==
    /\ AllOff
    /\ \/ calc \in [phase : {"lines"}, lines : LineLists, cost_mode : {"Auto"}]
       \/ calc \in [phase : {"rows"}, rows : RowLists]

\* ClaudeCodeDataSource::refresh_cache over the files' lines.
RefreshCache ==
    /\ calc.phase = "lines"
    /\ LET entries == LoadJsonlFiles(calc.lines)
       IN calc' = [phase |-> "loaded", lines |-> calc.lines,
                   cost_mode |-> calc.cost_mode, result |-> "Ok",
                   entries |-> entries,
                   sessions |-> GroupIntoSessions(entries, calc.cost_mode)]
    /\ CalcUnchanged

\* A second data source is built over files that hold the first occurrence
\* of each id only, and refreshes its cache.
RefreshCacheOfFirstOccurrences ==
    /\ calc.phase = "loaded"
    /\ LET entries == LoadJsonlFiles(FirstOccurrences(calc.lines))
       IN calc' = [calc EXCEPT !.phase = "reloaded"]
                    @@ [first_entries |-> entries,
                        first_sessions |->
                            GroupIntoSessions(entries, calc.cost_mode)]
    /\ CalcUnchanged

\* One refresh of the collector over a QDatabase.
CollectRows ==
    /\ calc.phase = "rows"
    /\ calc' = [phase |-> "collected", rows |-> calc.rows,
                refresh |-> CollectDataOverRows(calc.rows)]
    /\ CalcUnchanged

RecordsNext == RefreshCache \/ RefreshCacheOfFirstOccurrences \/ CollectRows

RecordsSpec == RecordsInit /\ [][RecordsNext]_vars

\* ------------------------------------------------------- session totals

\* The fields of ClaudeTokenUsage are u32.  Counts are given in units of
\* 2^16 tokens, so that 2^32 tokens are 2^16 units.
U32Modulus == 65536

\* Entries added to a session after its first.
MaxAdds == 2

\* a + b on u32: the sum, or, when it does not fit, a panic in a build with
\* overflow checks and the sum modulo 2^32 in a build without.
U32Add(a, b, overflow_checks) ==
    IF a + b < U32Modulus THEN [outcome |-> "ok", value |-> a + b]
    ELSE IF overflow_checks THEN [outcome |-> "panic", value |-> a]
    ELSE [outcome |-> "ok", value |-> (a + b) % U32Modulus]

\* Option<u32>::unwrap_or(0).
UnwrapOrZero(opt) == IF opt = None THEN 0 ELSE opt[1]

\* ClaudeTokenUsage::add: four additions in the order of the statements; a
\* panic leaves the later fields as they were.
TokenUsageAdd(self, other, overflow_checks) ==
    LET i == U32Add(self.input_tokens, other.input_tokens, overflow_checks)
        o == U32Add(self.output_tokens, other.output_tokens, overflow_checks)
        c == U32Add(UnwrapOrZero(self.cache_creation_input_tokens),
                    UnwrapOrZero(other.cache_creation_input_tokens), overflow_checks)
        r == U32Add(UnwrapOrZero(self.cache_read_input_tokens),
                    UnwrapOrZero(other.cache_read_input_tokens), overflow_checks)
    IN IF i.outcome = "panic"
       THEN [outcome |-> "panic", usage |-> self]
       ELSE IF o.outcome = "panic"
       THEN [outcome |-> "panic",
             usage |-> [self EXCEPT !.input_tokens = i.value]]
       ELSE IF c.outcome = "panic"
       THEN [outcome |-> "panic",
             usage |-> [self EXCEPT !.input_tokens = i.value,
                                    !.output_tokens = o.value]]
       ELSE IF r.outcome = "panic"
       THEN [outcome |-> "panic",
             usage |-> [self EXCEPT !.input_tokens = i.value,
                                    !.output_tokens = o.value,
                                    !.cache_creation_input_tokens = Some(c.value)]]
       ELSE [outcome |-> "ok",
             usage |-> [input_tokens |-> i.value,
                        output_tokens |-> o.value,
                        cache_creation_input_tokens |-> Some(c.value),
                        cache_read_input_tokens |-> Some(r.value)]]

\* message.usage of the entries tried, each field a u32.
AddUsageSamples ==
    [input_tokens : {0, 1, U32Modulus \div 2},
     output_tokens : {0, U32Modulus - 1},
     cache_creation_input_tokens : {None, Some(1)},
     cache_read_input_tokens : {None, Some(U32Modulus \div 2)}]

\* The counts of a usage as numbers, an absent count as 0.
Counts(u) ==
    [input_tokens |-> u.input_tokens, output_tokens |-> u.output_tokens,
     cache_creation_input_tokens |-> UnwrapOrZero(u.cache_creation_input_tokens),
     cache_read_input_tokens |-> UnwrapOrZero(u.cache_read_input_tokens)]

\* group_into_sessions, or_insert_with: the session of an id's first entry
\* starts with that entry's usage.  sum is the sum of the entries' counts.
AddInit ==
    /\ AllOff
    /\ \E u \in AddUsageSamples :
         calc = [phase |-> "session", total_tokens |-> u, sum |-> Counts(u),
                 outcome |-> "ok", adds |-> 0]

\* group_into_sessions, and_modify: session.total_tokens.add(&entry.message
\* .usage) for the next entry of the same session id.
AddEntry ==
    /\ calc.phase = "session"
    /\ calc.outcome = "ok"
    /\ calc.adds < MaxAdds
    /\ \E u \in AddUsageSamples, overflow_checks \in BOOLEAN :
         LET a == TokenUsageAdd(calc.total_tokens, u, overflow_checks)
             c == Counts(u)
         IN calc' = [phase |-> "session", total_tokens |-> a.usage,
                     sum |-> [f \in DOMAIN calc.sum |-> calc.sum[f] + c[f]],
                     outcome |-> a.outcome, adds |-> calc.adds + 1]
    /\ CalcUnchanged

AddNext == AddEntry

AddSpec == AddInit /\ [][AddNext]_vars

\* ------------------------------------------------------------ properties

\* Collector t has finished a tick and awaits the next one.
Idle(t) == task[t].st = "live" /\ task[t].pc = "tick" /\ ~task[t].aborted

\* Collector t can execute no statement any more: dropped, or aborted while
\* suspended at its tick.
Stopped(t) == task[t].st # "live" \/ (task[t].aborted /\ task[t].pc = "tick")

\* What has_changed would answer on the next tick if the store can be read.
WouldChange(t) ==
    HasChanged(task[t].kind, task[t].ds, store[task[t].kind], TRUE).res = "true"

\* C2: while a collector that was aborted by a switch has not yet stopped, no
\* other collector has polled its Data Source or written a cell: at most one
\* collector is active at any time.
C2_OldStoppedBeforeNewPolls ==
    \A t \in TaskIds, u \in TaskIds :
        (t # u /\ task[t].aborted /\ ~Stopped(t))
            => ~(task[u].st = "live" /\ task[u].tick.check # "none")

\* C3: whenever the event loop is about to render, every cell that holds data
\* holds data of the provider the label names: either the switch completed
\* (new label, cells of the new collector) or the previous state is in effect
\* (old label, cells of the old collector), never a new label over old cells.
C3_LabelMatchesCells ==
    mainpc = "loop" =>
        \A c \in CellNames : cell[c] # EmptyCell => cell[c].src = active_data_source

\* C4: after a tick whose refresh succeeded, either the published session list
\* is the underlying data as it is now, or the next has_changed reports a
\* change: no modification is left for which no later tick would refresh.
C4_NoLostChange ==
    \A t \in TaskIds :
        (Idle(t) /\ task[t].tick.refresh = "ok" /\ ~WouldChange(t))
            => cell["all_sessions"] =
                   [src |-> task[t].kind, ver |-> store[task[t].kind].ver]

\* C5: after every tick is_connected is false if the tick's has_changed failed
\* and true if it succeeded, whether it answered changed or unchanged.
C5_ConnectedFollowsCheck ==
    \A t \in TaskIds :
        (task[t].st = "live" /\ task[t].pc = "tick")
            => /\ task[t].tick.check = "err" => ~is_connected
               /\ task[t].tick.check \in {"true", "false"} => is_connected

\* C6: after a tick whose collect_data returned an error the collector is
\* still alive, awaiting the next tick, and is_connected is false.
C6_FailedRefreshClearsFlag ==
    \A t \in TaskIds :
        (task[t].pc = "tick" /\ task[t].tick.refresh = "err")
            => task[t].st = "live" /\ ~is_connected

\* C7: after a tick whose collect_data returned an error, the next tick's
\* has_changed (if the store can be read) answers changed, so that the refresh
\* is attempted again, for either Data Source and without a further change.
C7_FailedRefreshRetried ==
    \A t \in TaskIds :
        (Idle(t) /\ task[t].tick.refresh = "err") => WouldChange(t)

\* C8: a tick whose refresh succeeded has sent exactly one DatabaseUpdate, with
\* or without a current conversation, and a tick without a refresh none.
C8_OneEventPerRefresh ==
    \A t \in TaskIds :
        (task[t].st = "live" /\ task[t].pc = "tick")
            => /\ task[t].tick.refresh = "ok" => task[t].tick.events = 1
               /\ task[t].tick.refresh = "none" => task[t].tick.events = 0

\* C9: once a switch request has been handled, whether or not the new Data
\* Source could be built, a collector task is running behind the handle.
C9_PollingResumes ==
    (mainpc = "loop" /\ switches > 0)
        => /\ collector_handle # 0
           /\ task[collector_handle].st = "live"
           /\ ~task[collector_handle].aborted

\* The collector waits for a Mutex the consumer holds, or for room in the
\* event channel.
CollectorWaits ==
    /\ lk.phase = "on" /\ lk.cpc > 0
    /\ ~CanStep("collector", CollectLocks(lk.conv)[lk.cpc])

\* The consumer waits in render for a Mutex the collector holds.
ConsumerWaits ==
    /\ lk.phase = "on" /\ lk.rpc <= Len(RenderLocks(lk.view))
    /\ ~CanStep("consumer", RenderLocks(lk.view)[lk.rpc])

\* C1: in no interleaving of a refresh with a render pass do the collector and
\* the consumer wait for each other: the collector for a cell lock the
\* consumer holds or for room in the event channel, while the consumer waits
\* for a cell lock the collector holds (and so neither releases nor drains).
C1_NoDeadlock == ~(CollectorWaits /\ ConsumerWaits)

\* C10: a QDatabase and a ClaudeCodeDataSource built, changed and polled in
\* lockstep give the same has_changed answer at every tick, the first tick
\* after construction included.
C10_SameAnswers == sub.phase # "off" => sub.ansQ = sub.ansC

\* C11: every token-usage snapshot published to shared state has its
\* percentage in [0, 100], whichever producer computed it.
C11_PercentageInRange ==
    calc.phase = "usage_published" =>
        /\ PctLe(Percent(0, 1), calc.usage.percentage)
        /\ PctLe(calc.usage.percentage, Percent(100, 1))

\* C12: every TokenUsageDetails a Data Source produces has
\* total_tokens = min(history_tokens + context_tokens, context_window).
C12_TotalIsCappedSum ==
    (calc.phase = "usage_details" /\ calc.producer \in {"QDatabase", "ClaudeCode"}) =>
        calc.details.total_tokens =
            Min(calc.details.history_tokens + calc.details.context_tokens,
                calc.details.context_window)

\* The status the thresholds < 70, 70-90, 90-95, > 95 give a percentage.
DocumentedStatus(p) ==
    IF PctLt(p, Percent(70, 1)) THEN "Safe"
    ELSE IF PctLt(p, Percent(90, 1)) THEN "Warning"
    ELSE IF PctLe(p, Percent(95, 1)) THEN "Critical"
    ELSE "Imminent"

\* C13: compaction_status is the step function of percentage with Safe below
\* 70, Warning from 70 to 90, Critical from 90 to 95 and Imminent only above
\* 95, at every place that classifies a percentage.
C13_StatusBoundaries ==
    calc.phase = "usage_details" =>
        calc.details.compaction_status = DocumentedStatus(calc.details.percentage)

\* C14: QDatabase reports exactly 100.0 only when history + context tokens
\* reach the context window, and is then Imminent; below the window it reports
\* at most 99.9; it never reports more than 100.0.
C14_HundredOnlyAtCap ==
    (calc.phase = "usage_details" /\ calc.producer = "QDatabase") =>
        LET d == calc.details
            sum == d.history_tokens + d.context_tokens
        IN /\ PctEq(d.percentage, Percent(100, 1)) <=> sum >= d.context_window
           /\ PctEq(d.percentage, Percent(100, 1)) => d.compaction_status = "Imminent"
           /\ sum < d.context_window => PctLe(d.percentage, Percent(999, 10))
           /\ PctLe(d.percentage, Percent(100, 1))

\* 200,000 tokens against the 175,000 window: clamped to 100.0, Imminent.
C14_Witness ==
    /\ calc.phase = "usage_details" /\ calc.producer = "QDatabase"
    /\ calc.details.history_tokens + calc.details.context_tokens = ClaudeContextWindow
    /\ calc.details.total_tokens = QContextWindow
    /\ PctEq(calc.details.percentage, Percent(100, 1))
    /\ calc.details.compaction_status = "Imminent"

\* C15: if all records lie within one block duration (last timestamp minus
\* first at most the duration), identify_session_blocks returns exactly one
\* block, holding every record, whose token_counts are the per-category sums,
\* wherever within the hour the first record falls.
C15_OneBlockWithinDuration ==
    calc.phase = "blocks_built" =>
        LET rs == SortedEntries(calc.entries)
        IN (rs # <<>> /\ Date(rs[Len(rs)]) - Date(rs[1]) <= DurationHours(calc.hours))
           => /\ Len(calc.blocks) = 1
              /\ ~calc.blocks[1].is_gap
              /\ calc.blocks[1].entries = rs
              /\ calc.blocks[1].token_counts = SumCounts(rs).counts

\* C16: exactly one gap block stands between the real block ending with a
\* record and the real block starting with the next record whenever the two
\* are more than the block duration apart, spanning [earlier + duration,
\* later), with no entries, tokens or cost and never active; there is no
\* other gap block.
C16_GapBlocks ==
    calc.phase = "blocks_built" =>
        LET rs == SortedEntries(calc.entries)
            D == DurationHours(calc.hours)
            B == calc.blocks
            gaps == {k \in DOMAIN B : B[k].is_gap}
            apart == {i \in 1 .. (Len(rs) - 1) : Date(rs[i + 1]) - Date(rs[i]) > D}
        IN /\ Cardinality(gaps) = Cardinality(apart)
           /\ \A i \in apart : \E k \in gaps :
                /\ 1 < k /\ k < Len(B)
                /\ ~B[k - 1].is_gap /\ ~B[k + 1].is_gap
                /\ B[k - 1].entries # <<>>
                /\ B[k - 1].entries[Len(B[k - 1].entries)] = rs[i]
                /\ B[k + 1].entries # <<>>
                /\ B[k + 1].entries[1] = rs[i + 1]
                /\ B[k].start_time = Date(rs[i]) + D
                /\ B[k].end_time = Date(rs[i + 1])
           /\ \A k \in gaps :
                /\ B[k].entries = <<>>
                /\ B[k].token_counts = ZeroCounts
                /\ B[k].cost_usd = 0
                /\ ~B[k].is_active

\* Records at hour 0 and one time step more than 5 hours later, with a 5-hour
\* duration: real, gap, real.
C16_Witness ==
    /\ calc.phase = "blocks_built"
    /\ calc.hours = DefaultSessionDurationHours
    /\ Len(calc.entries) = 2
    /\ calc.entries[1].timestamp = 0
    /\ calc.entries[2].timestamp = DurationHours(DefaultSessionDurationHours) + 1
    /\ Len(calc.blocks) = 3
    /\ ~calc.blocks[1].is_gap /\ calc.blocks[2].is_gap /\ ~calc.blocks[3].is_gap
    /\ calc.blocks[2].start_time = DurationHours(DefaultSessionDurationHours)
    /\ calc.blocks[2].end_time = DurationHours(DefaultSessionDurationHours) + 1

\* C17: no blocks for empty input; for a single record exactly one block, not
\* a gap, holding the record, starting at the record's timestamp floored to
\* the hour and ending one block duration later.
C17_EmptyAndSingle ==
    calc.phase = "blocks_built" =>
        /\ calc.entries = <<>> => calc.blocks = <<>>
        /\ (Len(calc.entries) = 1 /\ Date(calc.entries[1]) # NoTime) =>
              /\ Len(calc.blocks) = 1
              /\ ~calc.blocks[1].is_gap
              /\ calc.blocks[1].entries = calc.entries
              /\ calc.blocks[1].start_time % HourUnits = 0
              /\ calc.blocks[1].start_time <= Date(calc.entries[1])
              /\ Date(calc.entries[1]) - calc.blocks[1].start_time < HourUnits
              /\ calc.blocks[1].end_time =
                    calc.blocks[1].start_time + DurationHours(calc.hours)

\* A single record past the start of its hour.
C17_Witness ==
    /\ calc.phase = "blocks_built"
    /\ Len(calc.entries) = 1
    /\ Date(calc.entries[1]) # NoTime
    /\ Date(calc.entries[1]) % HourUnits # 0
    /\ Len(calc.blocks) = 1
    /\ calc.blocks[1].start_time < Date(calc.entries[1])

\* What C18 compares of a sequence of blocks.
Boundaries(B) ==
    [k \in DOMAIN B |->
        [start_time |-> B[k].start_time, end_time |-> B[k].end_time,
         is_gap |-> B[k].is_gap, token_counts |-> B[k].token_counts]]

\* C18: two builds from the same records and duration give the same blocks in
\* the same order (start_time, end_time, is_gap, token_counts), whatever the
\* wall-clock time of each build.
C18_RebuildIsIdentical ==
    calc.phase = "blocks_rebuilt" =>
        Boundaries(calc.blocks) = Boundaries(calc.first.blocks)

\* Two builds at different wall-clock times whose blocks differ in is_active.
C18_Witness ==
    /\ calc.phase = "blocks_rebuilt"
    /\ calc.wall # calc.first.wall
    /\ Len(calc.blocks) >= 2
    /\ calc.blocks # calc.first.blocks

\* C19: calculate_cost in Display mode returns the declared cost, or 0 when
\* there is none; in Calculate mode the cost derived from tokens and pricing,
\* whatever the declared cost; in Auto mode the declared cost when it is
\* present and positive, and the derived cost otherwise.
C19_CostModes ==
    calc.phase = "cost_done" =>
        LET derived == CalculateFromTokens(LoadedPricingData(calc.table),
                                           calc.tokens, calc.model)
            declared == calc.existing_cost
        IN /\ calc.mode = "Display" =>
                calc.cost = (IF declared = None THEN 0 ELSE declared[1])
           /\ calc.mode = "Calculate" => calc.cost = derived
           /\ calc.mode = "Auto" =>
                calc.cost = (IF declared # None /\ declared[1] > 0
                             THEN declared[1] ELSE derived)

\* Calculate mode with a positive declared cost that differs from the derived
\* one: the derived cost is returned.
C19_Witness ==
    /\ calc.phase = "cost_done"
    /\ calc.mode = "Calculate"
    /\ calc.existing_cost # None
    /\ calc.existing_cost[1] > 0
    /\ calc.cost # calc.existing_cost[1]
    /\ calc.cost > 0

\* The fields of a usable pricing record.
PricingFields ==
    {"input_cost_per_token", "output_cost_per_token",
     "cache_creation_cost_per_token", "cache_read_cost_per_token", "max_tokens"}

\* C20: get_pricing gives a pricing record for every name and every table:
\* the table's entry for the normalised name; failing that the family entry
\* (claude-3-opus for a name with "opus", claude-3-5-sonnet for one with
\* "sonnet") when the table has it; failing that the default model's pricing,
\* which is the built-in one when the table has no default entry.
C20_PricingIsTotal ==
    calc.phase = "pricing_done" =>
        LET table == LoadedPricingData(calc.table)
            name == NormalizeModelName(calc.model)
            default == IF DefaultModel \in DOMAIN table THEN table[DefaultModel]
                       ELSE NewPricingData[DefaultModel]
        IN /\ DOMAIN calc.pricing = PricingFields
           /\ name \in DOMAIN table => calc.pricing = table[name]
           /\ (name \notin DOMAIN table /\ Contains(name, "opus")) =>
                calc.pricing = (IF "claude-3-opus" \in DOMAIN table
                                THEN table["claude-3-opus"] ELSE default)
           /\ (name \notin DOMAIN table /\ ~Contains(name, "opus")
                 /\ Contains(name, "sonnet")) =>
                calc.pricing = (IF "claude-3-5-sonnet" \in DOMAIN table
                                THEN table["claude-3-5-sonnet"] ELSE default)
           /\ (name \notin DOMAIN table
                 /\ \A w \in {"opus", "sonnet", "haiku", "instant", "claude-2"} :
                      ~Contains(name, w)) =>
                calc.pricing = default

\* A name of the Opus family against a table read from a file with neither
\* the family entry nor the default model: the built-in default pricing.
C20_Witness ==
    /\ calc.phase = "pricing_done"
    /\ calc.model = "claude-opus-4"
    /\ calc.table = "empty"
    /\ calc.pricing = NewPricingData[DefaultModel]

\* C21: provider prefixes do not change pricing: in Calculate mode the cost
\* of a model name under any known prefix, in any letter case, equals the
\* cost of the name itself.
C21_PrefixKeepsCost ==
    (calc.phase = "cost_prefixed" /\ calc.mode = "Calculate")
        => calc.prefixed_cost = calc.cost
\* The updates i+1 .. j of the trace all had the instant rate r.
ConstantRun(i, j, r) ==
    \A u \in (i + 1) .. j : calc.trace[u].instant_rate = r

\* The distance between a rate [n, k] and r half tokens per minute, counted
\* in units of 1 / (2 * 10^k).
Distance(rate, r) == Abs(rate.n - r * Pow(10, rate.k))

\* C22: while the instant rate stays at a constant r, each update that
\* smooths multiplies the distance between ema_tokens_per_minute and r by
\* exactly 0.7 (an update that seeds the average leaves no distance), so
\* after N such updates the distance is at most 0.7^N times the initial one.
C22_EmaConverges ==
    calc.phase = "burn" =>
        /\ \A u \in 1 .. Len(calc.trace) :
             LET o == calc.trace[u]
             IN IF o.last_total_tokens = 0
                THEN Distance(o.ema_tokens_per_minute, o.instant_rate) = 0
                ELSE Distance(o.ema_tokens_per_minute, o.instant_rate)
                       = 7 * Distance(o.previous, o.instant_rate)
        /\ \A i \in 1 .. Len(calc.trace), j \in 1 .. Len(calc.trace) :
             (i < j /\ ConstantRun(i, j, calc.trace[j].instant_rate)) =>
                LET r == calc.trace[j].instant_rate
                    first == calc.trace[i].ema_tokens_per_minute
                    last == calc.trace[j].ema_tokens_per_minute
                    c == Min(first.k + (j - i), last.k)
                IN Distance(last, r) * Pow(10, first.k + (j - i) - c)
                     <= Pow(7, j - i) * Distance(first, r) * Pow(10, last.k - c)

\* Two successive smoothing updates at the same positive instant rate, begun
\* away from it: the average has moved towards the rate and not reached it.
C22_Witness ==
    /\ calc.phase = "burn"
    /\ \E i \in 1 .. Len(calc.trace) :
         /\ i + 2 <= Len(calc.trace)
         /\ calc.trace[i + 2].instant_rate > 0
         /\ ConstantRun(i, i + 2, calc.trace[i + 2].instant_rate)
         /\ \A u \in (i + 1) .. (i + 2) : calc.trace[u].last_total_tokens > 0
         /\ Distance(calc.trace[i].ema_tokens_per_minute,
                     calc.trace[i + 2].instant_rate) > 0
         /\ Distance(calc.trace[i + 2].ema_tokens_per_minute,
                     calc.trace[i + 2].instant_rate) > 0

RefreshedCells ==
    {"all_conversations", "all_sessions", "directory_groups", "global_stats",
     "period_metrics", "token_usage", "current_conversation", "cost_analysis",
     "burn_rate"}

\* C24: a record that does not parse is skipped and nothing else is lost:
\* the entries loaded from JSONL lines are those loaded from the well-formed
\* lines alone and no error is returned; the conversations listed are
\* exactly the rows that parse, and the refresh that meets a row that does
\* not parse returns Ok and writes every cell.
C24_MalformedIsSkipped ==
    /\ calc.phase = "loaded" =>
          /\ calc.result = "Ok"
          /\ calc.entries =
                LoadJsonlFiles(SelectSeq(calc.lines, LAMBDA l : l.kind = "entry"))
          /\ \A i \in 1 .. Len(calc.lines) :
                calc.lines[i].kind = "entry" =>
                    \E k \in 1 .. Len(calc.entries) :
                        UniqueId(calc.entries[k]) = UniqueId(calc.lines[i])
    /\ calc.phase = "collected" =>
          /\ calc.refresh.written["all_conversations"]
                = {i \in 1 .. Len(calc.rows) : calc.rows[i].ok}
          /\ calc.refresh.result = "Ok"
          /\ DOMAIN calc.refresh.written = RefreshedCells

\* C25: loading lines in which ids repeat gives the sessions, with their
\* entries, message counts, token totals and costs, that loading the first
\* occurrence of each id gives.
C25_DuplicatesAreDropped ==
    calc.phase = "reloaded" =>
        /\ calc.entries = calc.first_entries
        /\ calc.sessions = calc.first_sessions

\* Lines in which an id repeats, in entries that differ, were loaded, and
\* loaded again from their first occurrences.
C25_Witness ==
    /\ calc.phase = "reloaded"
    /\ FirstOccurrences(calc.lines) # calc.lines
    /\ Len(calc.entries) >= 2
    /\ \E i \in 1 .. Len(calc.lines), j \in 1 .. Len(calc.lines) :
          /\ i < j
          /\ HasId(calc.lines[i]) /\ HasId(calc.lines[j])
          /\ UniqueId(calc.lines[i]) = UniqueId(calc.lines[j])
          /\ calc.lines[i] # calc.lines[j]

\* The Mutex cells the collector owns.
CollectorHolds == {c \in LockCells : lk.holder[c] = "collector"}

\* C26: while the collector owns the lock of a cell, its next step is the
\* end of that guard's scope: it takes no second lock, by a guard or by a
\* temporary, and does not send on the bounded channel.
C26_LockHeldForWriteOnly ==
    (lk.phase = "on" /\ lk.cpc > 0 /\ CollectorHolds # {})
        => CollectLocks(lk.conv)[lk.cpc].op = "rel"

\* C27: a tick on which has_changed answers Ok(false) recomputes nothing:
\* the collector goes back to awaiting the next tick without entering
\* collect_data, so no getter is called, and the step leaves every metric
\* cell and the event channel as they were.
C27_UnchangedTickIsSkipped ==
    [][\A t \in TaskIds :
          (task'[t].st = "live" /\ task'[t].tick.check = "false")
              => /\ task'[t].pc = "tick"
                 /\ task'[t].tick.refresh = "none" /\ task'[t].tick.events = 0
                 /\ task'[t] # task[t] => (cell' = cell /\ chan' = chan)]_vars

\* A collector that has refreshed every cell polled again, found nothing
\* changed and awaits the next tick.
C27_Witness ==
    \E t \in TaskIds :
        /\ task[t].st = "live" /\ task[t].pc = "tick"
        /\ task[t].tick.check = "false"
        /\ \A c \in CellNames \ {"active_claude_session"} : cell[c].src # "none"

\* The positions of the blocks that are not gaps, and the pairs of them
\* with no other such block between.
RealBlocks(B) == {k \in DOMAIN B : ~B[k].is_gap}

ConsecutiveReal(B, i, j) ==
    /\ i \in RealBlocks(B) /\ j \in RealBlocks(B) /\ i < j
    /\ \A k \in RealBlocks(B) : ~(i < k /\ k < j)

\* C28: every block that is not a gap ends one block duration after its
\* start; the intervals of consecutive such blocks do not overlap; and where
\* one ends before the next starts, a gap block stands between them.
C28_BlocksContiguous ==
    calc.phase = "blocks_built" =>
        LET B == calc.blocks
            D == DurationHours(calc.hours)
        IN /\ \A k \in RealBlocks(B) : B[k].end_time = B[k].start_time + D
           /\ \A i \in DOMAIN B, j \in DOMAIN B :
                ConsecutiveReal(B, i, j) =>
                    /\ B[i].end_time <= B[j].start_time
                    /\ B[i].end_time < B[j].start_time =>
                          \E k \in DOMAIN B : i < k /\ k < j /\ B[k].is_gap

\* C29: a block that is not a gap is flagged active exactly when the current
\* time is before its end_time and less than the block duration after the
\* timestamp of its last entry; a gap block is never active.
C29_ActiveFlag ==
    calc.phase = "blocks_built" =>
        LET B == calc.blocks
            D == DurationHours(calc.hours)
        IN \A k \in DOMAIN B :
              IF B[k].is_gap THEN ~B[k].is_active
              ELSE /\ B[k].entries # <<>>
                   /\ B[k].is_active <=>
                         (/\ calc.wall < B[k].end_time
                          /\ calc.wall - Date(B[k].entries[Len(B[k].entries)]) < D)

\* A build less than the block duration after a block's last entry and not
\* before the block's end: the block is not active; and a build with an
\* active block and a gap block.
C29_Witness ==
    /\ calc.phase = "blocks_built"
    /\ \E k \in RealBlocks(calc.blocks) :
          /\ calc.wall >= calc.blocks[k].end_time
          /\ calc.wall - Date(calc.blocks[k].entries[Len(calc.blocks[k].entries)])
                < DurationHours(calc.hours)
          /\ calc.wall >= Date(calc.blocks[k].entries[Len(calc.blocks[k].entries)])
          /\ ~calc.blocks[k].is_active
    /\ \E j \in DOMAIN calc.blocks : calc.blocks[j].is_active
    /\ \E j \in DOMAIN calc.blocks : calc.blocks[j].is_gap

\* Every entry that parses is at or before the wall-clock time of the build.
EntriesNotAfterWall ==
    \A i \in DOMAIN calc.entries :
        Date(calc.entries[i]) # NoTime => Date(calc.entries[i]) <= calc.wall

\* C30: when no record is after the current time, at most one block is
\* flagged active and an active block is the last block of the output.
C30_OnlyLastIsActive ==
    (calc.phase = "blocks_built" /\ EntriesNotAfterWall) =>
        LET B == calc.blocks
        IN /\ Cardinality({k \in DOMAIN B : B[k].is_active}) <= 1
           /\ \A k \in DOMAIN B : B[k].is_active => k = Len(B)

\* Two blocks of entries all in the past, the second active, the first
\* closed less than a block duration after its last entry.
C30_Witness ==
    /\ calc.phase = "blocks_built" /\ EntriesNotAfterWall
    /\ Len(calc.blocks) = 2
    /\ ~calc.blocks[1].is_active /\ calc.blocks[2].is_active
    /\ calc.wall - calc.blocks[1].actual_end_time < DurationHours(calc.hours)


\* The entries of all the blocks of B, in block order.
RECURSIVE EntriesOfBlocks(_)
EntriesOfBlocks(B) ==
    IF B = <<>> THEN <<>> ELSE Head(B).entries \o EntriesOfBlocks(Tail(B))

\* How often the record e occurs in the sequence es.
Occurrences(es, e) == Cardinality({i \in DOMAIN es : es[i] = e})

\* The sum of the numbers of the sequence ns.
RECURSIVE SumSeq(_)
SumSeq(ns) == IF ns = <<>> THEN 0 ELSE Head(ns) + SumSeq(Tail(ns))

\* The sum of f over the elements of the sequence xs.
SumOver(xs, f(_)) == SumSeq([i \in DOMAIN xs |-> f(xs[i])])

\* C31: every input record with a parseable timestamp is in exactly one
\* block that is not a gap and in no gap block, no block holds a record that
\* was not in the input, and for each token category and for the cost the
\* sum over all blocks equals the sum over those input records.
C31_BlocksConserveRecords ==
    calc.phase = "blocks_built" =>
        LET B == calc.blocks
            parsed == SelectSeq(calc.entries, LAMBDA e : Date(e) # NoTime)
            held == EntriesOfBlocks(B)
        IN /\ \A e \in EntrySamples : Occurrences(held, e) = Occurrences(parsed, e)
           /\ \A k \in DOMAIN B : B[k].is_gap => B[k].entries = <<>>
           /\ SumOver(B, LAMBDA b : b.token_counts.input_tokens)
                = SumOver(parsed, LAMBDA e : e.usage.input_tokens)
           /\ SumOver(B, LAMBDA b : b.token_counts.output_tokens)
                = SumOver(parsed, LAMBDA e : e.usage.output_tokens)
           /\ SumOver(B, LAMBDA b : b.token_counts.cache_creation_input_tokens)
                = SumOver(parsed, LAMBDA e : e.usage.cache_creation_input_tokens)
           /\ SumOver(B, LAMBDA b : b.token_counts.cache_read_input_tokens)
                = SumOver(parsed, LAMBDA e : e.usage.cache_read_input_tokens)
           /\ SumOver(B, LAMBDA b : b.cost_usd)
                = SumOver(parsed, LAMBDA e : e.cost_usd)

\* A build over an unparseable record and records with cache tokens that end
\* up in two blocks with a gap block between them.
C31_Witness ==
    /\ calc.phase = "blocks_built"
    /\ \E i \in DOMAIN calc.entries : Date(calc.entries[i]) = NoTime
    /\ \E k \in DOMAIN calc.blocks : calc.blocks[k].is_gap
    /\ Cardinality({k \in DOMAIN calc.blocks : ~calc.blocks[k].is_gap}) = 2
    /\ \E k \in DOMAIN calc.blocks :
          calc.blocks[k].token_counts.cache_read_input_tokens > 0

\* C32: every entry of a block that is not a gap lies between the block's
\* start_time and end_time; actual_end_time is the latest timestamp of the
\* block's entries; the blocks are in ascending start_time order, and the
\* entries of each block in ascending timestamp order.
C32_BlocksOrdered ==
    calc.phase = "blocks_built" =>
        LET B == calc.blocks
        IN /\ \A k \in RealBlocks(B) :
                /\ \A i \in DOMAIN B[k].entries :
                      /\ B[k].start_time <= Date(B[k].entries[i])
                      /\ Date(B[k].entries[i]) <= B[k].end_time
                      /\ Date(B[k].entries[i]) <= B[k].actual_end_time
                /\ \E i \in DOMAIN B[k].entries :
                      Date(B[k].entries[i]) = B[k].actual_end_time
                /\ \A i \in 1 .. (Len(B[k].entries) - 1) :
                      Date(B[k].entries[i]) <= Date(B[k].entries[i + 1])
           /\ \A k \in 1 .. (Len(B) - 1) : B[k].start_time <= B[k + 1].start_time

\* C33: for every order of the same records the blocks have the same
\* start_time, end_time and is_gap, in the same sequence, and the same token
\* counts per block.
C33_OrderOfInputIsIrrelevant ==
    calc.phase = "reordered" =>
        Boundaries(calc.reordered_blocks) = Boundaries(calc.blocks)

\* Records handed over latest first and then earliest first, with records of
\* different usage at the same instant, that give more than one block.
C33_Witness ==
    /\ calc.phase = "reordered"
    /\ calc.reordered # calc.entries
    /\ Len(calc.blocks) > 1
    /\ \E i \in 1 .. (Len(calc.entries) - 1) :
          /\ Date(calc.entries[i]) # NoTime
          /\ Date(calc.entries[i + 1]) # NoTime
          /\ Date(calc.entries[i]) > Date(calc.entries[i + 1])
    /\ \E i, j \in DOMAIN calc.entries :
          /\ i # j
          /\ Date(calc.entries[i]) = Date(calc.entries[j])
          /\ Date(calc.entries[i]) # NoTime
          /\ calc.entries[i].usage # calc.entries[j].usage

\* max(0, total_now - last_total) / minutes_elapsed, in half tokens per
\* minute, for a positive number of minutes.
StatedInstantRate(o) ==
    (2 * (IF o.total_tokens < o.last_total_tokens THEN 0
          ELSE o.total_tokens - o.last_total_tokens)) \div o.minutes_elapsed

\* The rates [n, k] and [m, j] have the same value.
SameRate(a, b) == a.n * Pow(10, b.k) = b.n * Pow(10, a.k)

\* C34: only the first observation seeds ema_tokens_per_minute with the
\* instant rate; every later update, whatever the totals observed (a
\* previous total of zero too), stores 0.3 * instant + 0.7 * previous with
\* instant = max(0, total - last total) / minutes elapsed; and each update
\* publishes tokens_per_minute = ema and cost_per_minute = ema / 1000 *
\* cost_per_1k_tokens.
C34_SeedOnlyOnFirstObservation ==
    calc.phase = "burn" =>
        \A u \in 1 .. Len(calc.trace) :
            LET o == calc.trace[u]
            IN /\ o.tokens_per_minute = o.ema_tokens_per_minute
               /\ o.cost_per_minute
                    = [n |-> o.ema_tokens_per_minute.n * calc.cost_per_1k_tokens,
                       k |-> o.ema_tokens_per_minute.k]
               /\ (u > 1 /\ o.minutes_elapsed > 0) =>
                     SameRate(o.ema_tokens_per_minute,
                              Ema(StatedInstantRate(o), o.previous))

\* The snapshots pushed so far, in arrival order.
Arrivals ==
    [u \in 1 .. Len(calc.trace) |->
        [timestamp |-> calc.trace[u].timestamp,
         total_tokens |-> calc.trace[u].total_tokens]]

FirstRefreshDone ==
    /\ is_connected
    /\ cell["all_sessions"] # EmptyCell
    /\ cell["global_stats"] # EmptyCell

\* C36: once the collector runs on its Data Source, and no call fails, a
\* first refresh eventually happens, whether or not the underlying data
\* changes after startup: is_connected becomes true and the session list and
\* the global stats are published.
C36_FirstRefreshHappens == ([]~Errored) => <>FirstRefreshDone

\* C37: whenever update_token_usage_details evaluates limit - used, used is
\* at most limit, so the subtraction never underflows, whichever producer
\* built the details.
C37_RemainingNeverUnderflows ==
    calc.phase = "usage_published" =>
        /\ calc.remaining.outcome \in {"none", "difference"}
        /\ calc.remaining.outcome = "difference" => calc.usage.used <= calc.usage.limit

\* An absent count or rate, counted as zero.
OrZero(opt) == IF opt = None THEN 0 ELSE opt[1]

\* C38: a cost derived from tokens is input_tokens * input rate + output_tokens
\* * output rate + cache_creation tokens * cache-write rate + cache_read
\* tokens * cache-read rate of the resolved pricing, an absent rate or count
\* adding nothing; and the cache-write and cache-read rates of a pricing
\* built from prices per million are 1.25 and 0.10 times its input rate.
C38_CostIsSumOfCategories ==
    /\ (calc.phase = "cost_done"
        /\ (calc.mode = "Calculate"
            \/ (calc.mode = "Auto" /\ OrZero(calc.existing_cost) <= 0))) =>
          LET pricing == GetPricing(LoadedPricingData(calc.table), calc.model)
          IN calc.cost
               = calc.tokens.input_tokens * OrZero(pricing.input_cost_per_token)
                 + calc.tokens.output_tokens * OrZero(pricing.output_cost_per_token)
                 + OrZero(calc.tokens.cache_creation_input_tokens)
                     * OrZero(pricing.cache_creation_cost_per_token)
                 + OrZero(calc.tokens.cache_read_input_tokens)
                     * OrZero(pricing.cache_read_cost_per_token)
    /\ (calc.phase = "pricing_done" /\ calc.table \in {"new", "dated_only"}) =>
          /\ calc.pricing.input_cost_per_token # None
          /\ calc.pricing.cache_creation_cost_per_token # None
          /\ calc.pricing.cache_read_cost_per_token # None
          /\ 100 * calc.pricing.cache_creation_cost_per_token[1]
               = 125 * calc.pricing.input_cost_per_token[1]
          /\ 100 * calc.pricing.cache_read_cost_per_token[1]
               = 10 * calc.pricing.input_cost_per_token[1]

\* 1000 input, 500 output, 100 cache-write and 200 cache-read tokens of
\* claude-3-5-sonnet cost $0.010935.
C38_Witness ==
    /\ calc.phase = "cost_done"
    /\ calc.mode = "Calculate"
    /\ calc.table = "new"
    /\ calc.model = "claude-3-5-sonnet"
    /\ calc.tokens.cache_creation_input_tokens = Some(100)
    /\ calc.tokens.cache_read_input_tokens = Some(200)
    /\ calc.cost = 109350000

\* C39: the usage aggregator replaces a raw context length above 100,000 by
\* the typical-context estimate of 20,000, uses a raw value up to and
\* including 100,000 as it is, and counts an absent raw value as 0.
C39_ContextEstimate ==
    (calc.phase = "usage_details" /\ calc.producer = "QDatabase") =>
        LET raw == calc.context_message_length
        IN calc.details.context_tokens
             = (IF raw = <<>> THEN 0
                ELSE IF raw[1] > 100000 THEN 20000
                ELSE raw[1])

\* A raw context length of 100,001 is reported as 20,000.
C39_Witness ==
    /\ calc.phase = "usage_details"
    /\ calc.producer = "QDatabase"
    /\ calc.context_message_length = <<100001>>
    /\ calc.details.context_tokens = 20000

\* C40: for every sequence of entries of one session, each per-category sum
\* kept by ClaudeTokenUsage::add is the sum of the entries' counts: no
\* addition wraps around or panics.
C40_SessionTotalsNeverOverflow ==
    calc.phase = "session" =>
        /\ calc.outcome = "ok"
        /\ Counts(calc.total_tokens) = calc.sum
====
